---- MODULE Spec2Model ----
(***************************************************************************)
(* qstack: items stored as files under a stack root, an archive root and a *)
(* template root, each optionally one category directory deep, with a      *)
(* per-item attachment directory.  The commands of src/commands are the    *)
(* actions; every command is one atomic step (one short-lived process).    *)
(***************************************************************************)
EXTENDS Integers, Sequences, FiniteSets, TLC

\* ------------------------------------------------------------------ bounds
MaxAttachments == 3
MaxSources == 2
MaxIndices == 2
MaxFiles == 2

None == "None"

\* ============================================================ attachments
\* One item with its attachment directory.
VARIABLES
    itemStatus,     \* status of the item: "open" | "closed" | "template"
    attachments,    \* frontmatter.attachments of the item as persisted on disk
    attDir,         \* the files present in the item's attachment directory
    attachLast      \* what the last attach command did

attachVars == <<itemStatus, attachments, attDir, attachLast>>

\* ================================================================== store
VARIABLES
    files,          \* the item files on disk: [dir, name, fm]
    closedFrom,     \* the stack file and archive path of the last close, or {}
    corrupt,        \* the paths of the files whose content does not parse
    last            \* what the last store command did

storeVars == <<files, closedFrom, corrupt, last>>

\* ==================================================================== tui
VARIABLES
    terminal,       \* the terminal and the TUI session that holds it
    call,           \* a function of the user interface, its inputs and result
    input,          \* a TextInput widget: content, cursor, last key
    select,         \* a SelectList or MultiSelect widget
    screen          \* the selection screen: its options and its result

tuiVars == <<terminal, call, input, select, screen>>

vars == <<attachVars, storeVars, tuiVars>>

\* Bounds of the TUI session.
MaxTicks == 3
MaxRuns == 3

\* No TUI has run: the terminal is in cooked mode on the main screen.
NoTerminal ==
    [pc |-> "idle", raw |-> FALSE, alt |-> FALSE, paste |-> FALSE,
     guard |-> FALSE, how |-> "none", event |-> "none", ticks |-> 0,
     runs |-> 0]

\* No function has been called.
NoCall == [fn |-> "none"]

\* No widget and no screen has been built.
NoWidget == [kind |-> "none"]

InitTerminal == terminal = NoTerminal
InitCall == call = NoCall
InitWidgets == input = NoWidget /\ select = NoWidget /\ screen = NoWidget

InitTui ==
    /\ InitTerminal
    /\ InitCall
    /\ InitWidgets

\* Strings that match the URL-scheme pattern.
UrlStrings == {"https://example.com/x"}
\* Local paths given as sources: one that exists, one that does not, and one
\* that exists but cannot be copied (the copy fails with an I/O error).
ExistingPaths == {"a.txt", "bad.txt"}
UncopyablePaths == {"bad.txt"}
LocalPaths == {"a.txt", "gone.txt", "bad.txt"}
Sources == UrlStrings \cup LocalPaths

\* An attachment string is <<text, n>>: the URL or the original file name, and
\* the number the copy got to make its name collision-free (0 for a URL).
is_url(a) == a[1] \in UrlStrings

SeqsUpTo(S, n) == UNION {[1..k -> S] : k \in 0..n}

Range(s) == {s[k] : k \in 1..Len(s)}

\* ---- Vec helpers used by execute_remove
RECURSIVE InsertSorted(_, _)
InsertSorted(x, s) ==
    IF s = <<>> THEN <<x>>
    ELSE IF x <= Head(s) THEN <<x>> \o s
    ELSE <<Head(s)>> \o InsertSorted(x, Tail(s))

RECURSIVE sort_unstable(_)
sort_unstable(s) ==
    IF s = <<>> THEN <<>> ELSE InsertSorted(Head(s), sort_unstable(Tail(s)))

reverse(s) == [i \in 1..Len(s) |-> s[Len(s) + 1 - i]]

\* Vec::dedup removes consecutive repeated elements.
RECURSIVE dedup(_)
dedup(s) ==
    IF Len(s) <= 1 THEN s
    ELSE IF s[1] = s[2] THEN dedup(Tail(s))
    ELSE <<s[1]>> \o dedup(Tail(s))

\* Item::remove_attachment(index): Some(removed) when the 0-based index is in
\* bounds, None otherwise.
remove_attachment(att, idx_0) ==
    IF idx_0 >= 0 /\ idx_0 < Len(att)
    THEN [some |-> TRUE, removed |-> att[idx_0 + 1],
          att |-> [i \in 1..(Len(att) - 1) |->
                        IF i <= idx_0 THEN att[i] ELSE att[i + 1]]]
    ELSE [some |-> FALSE, removed |-> <<None, 0>>, att |-> att]

\* storage::delete_attachment: removes the file, or fails (the file stays).
delete_attachment(dir, name, undeletable) ==
    IF name \in undeletable THEN [ok |-> FALSE, dir |-> dir]
    ELSE [ok |-> TRUE, dir |-> dir \ {name}]

\* The order in which execute_remove processes the requested indices.
MutRemovalOrderAscending(indices) == dedup(sort_unstable(indices))

RemovalOrder(indices) == dedup(reverse(sort_unstable(indices)))

\* execute_remove deletes from disk what is a file (not a URL).
MutDeletesAlways(removed) == TRUE

DeletesFile(removed) == ~is_url(removed)

\* execute_remove on a failed delete_attachment: `if let Err(e)` only prints.
MutDeleteFailureStops(ok) == ~ok

DeleteFailureStops(ok) == FALSE

\* The removal loop of execute_remove over the ordered indices.
RECURSIVE RemoveLoop(_, _)
RemoveLoop(indices, acc) ==
    IF indices = <<>> THEN acc
    ELSE LET idx == Head(indices)
             r == remove_attachment(acc.att, idx - 1)
         IN  IF ~r.some THEN RemoveLoop(Tail(indices), acc)
             ELSE LET isFile == DeletesFile(r.removed)
                      d == IF isFile
                           THEN delete_attachment(acc.dir, r.removed, acc.undeletable)
                           ELSE [ok |-> TRUE, dir |-> acc.dir]
                      acc2 == [acc EXCEPT
                                  !.att = r.att,
                                  !.dir = d.dir,
                                  !.deleteTried = IF isFile THEN @ \cup {r.removed} ELSE @,
                                  !.warnings = IF d.ok THEN @ ELSE @ + 1]
                  IN  IF DeleteFailureStops(d.ok) THEN [acc2 EXCEPT !.err = TRUE]
                      ELSE RemoveLoop(Tail(indices),
                              [acc2 EXCEPT !.processed = Append(@, idx),
                                           !.removed_count = @ + 1])

\* The index validation of execute_remove.
MutIndicesValidFirstOnly(indices, attachment_count) ==
    ~(indices[1] = 0 \/ indices[1] > attachment_count)

IndicesValid(indices, attachment_count) ==
    \A k \in 1..Len(indices) :
        ~(indices[k] = 0 \/ indices[k] > attachment_count)

NoAttachLast ==
    [op |-> "none", res |-> "none", indices |-> <<>>, sources |-> <<>>,
     pre |-> <<>>, preDir |-> {}, saved |-> FALSE, processed |-> <<>>,
     deleteTried |-> {}, warnings |-> 0, count |-> 0, results |-> <<>>,
     mem |-> <<>>, saveFails |-> FALSE, undeletable |-> {}, why |-> "none"]

\* attach remove: commands/attach.rs execute_remove.
execute_remove(indices, undeletable, saveFails) ==
    LET attachment_count == Len(attachments)
        failed == [NoAttachLast EXCEPT !.op = "remove", !.res = "err",
                                       !.indices = indices,
                                       !.saveFails = saveFails,
                                       !.undeletable = undeletable,
                                       !.mem = attachments,
                                       !.pre = attachments, !.preDir = attDir]
    IN
    /\ UNCHANGED itemStatus
    /\ IF indices = <<>> \/ attachment_count = 0
          \/ ~IndicesValid(indices, attachment_count)
       THEN /\ UNCHANGED <<attachments, attDir>>
            /\ attachLast' = failed
       ELSE LET out == RemoveLoop(RemovalOrder(indices),
                          [att |-> attachments, dir |-> attDir,
                           undeletable |-> undeletable, processed |-> <<>>,
                           deleteTried |-> {}, warnings |-> 0,
                           removed_count |-> 0, err |-> FALSE])
                saved == ~out.err /\ ~saveFails
            IN  /\ attDir' = out.dir
                /\ attachments' = IF saved THEN out.att ELSE attachments
                /\ attachLast' = [failed EXCEPT
                        !.res = IF saved THEN "ok" ELSE "err",
                        !.saved = saved,
                        !.mem = out.att,
                        !.processed = out.processed,
                        !.deleteTried = out.deleteTried,
                        !.warnings = out.warnings,
                        !.count = out.removed_count]

\* storage::process_attachment: classifies the source, copies a local file
\* under a collision-free name and appends to item.attachments.
FreeNumber(dir, source) ==
    CHOOSE n \in 1..(Cardinality(dir) + 1) :
        /\ <<source, n>> \notin dir
        /\ \A m \in 1..(n - 1) : <<source, m>> \in dir

process_attachment(source, att, dir) ==
    IF source \in UrlStrings
    THEN [kind |-> "UrlAdded", att |-> Append(att, <<source, 0>>), dir |-> dir]
    ELSE IF source \notin ExistingPaths
    THEN [kind |-> "FileNotFound", att |-> att, dir |-> dir]
    ELSE IF source \in UncopyablePaths
    THEN [kind |-> "Err", att |-> att, dir |-> dir]
    ELSE LET new_name == <<source, FreeNumber(dir, source)>>
         IN  [kind |-> "FileCopied", att |-> Append(att, new_name),
              dir |-> dir \cup {new_name}]

\* How the loop of process_and_save_attachments treats FileNotFound.
MutStopsAtFileNotFound(kind) == kind \in {"Err", "FileNotFound"}

StopsLoop(kind) == kind = "Err"

\* The loop of process_and_save_attachments over the sources.
RECURSIVE ProcessLoop(_, _)
ProcessLoop(sources, acc) ==
    IF sources = <<>> THEN acc
    ELSE LET r == process_attachment(Head(sources), acc.att, acc.dir)
             acc2 == [acc EXCEPT !.att = r.att, !.dir = r.dir,
                                 !.results = Append(@, r.kind),
                                 !.added_count =
                                    IF r.kind \in {"UrlAdded", "FileCopied"}
                                    THEN @ + 1 ELSE @]
         IN  IF StopsLoop(r.kind) THEN [acc2 EXCEPT !.err = TRUE]
             ELSE ProcessLoop(Tail(sources), acc2)

\* ui.rs process_and_save_attachments: the loop, then item.save(path).
process_and_save_attachments(sources, saveFails) ==
    LET out == ProcessLoop(sources,
                   [att |-> attachments, dir |-> attDir, results |-> <<>>,
                    added_count |-> 0, err |-> FALSE])
        saved == ~out.err /\ ~saveFails
    IN  /\ attDir' = out.dir
        /\ attachments' = IF saved THEN out.att ELSE attachments
        /\ attachLast' = [NoAttachLast EXCEPT
                !.op = "add", !.sources = sources,
                !.pre = attachments, !.preDir = attDir,
                !.res = IF saved THEN "ok" ELSE "err",
                !.saved = saved,
                !.saveFails = saveFails,
                !.mem = out.att,
                !.results = out.results,
                !.count = out.added_count]

\* execute_add refuses an item whose status is Closed.
MutAddNeverRefused(status) == FALSE

AddRefused(status) == status = "closed"

\* attach add: commands/attach.rs execute_add.
execute_add(sources, saveFails) ==
    /\ UNCHANGED itemStatus
    /\ IF sources = <<>> \/ AddRefused(itemStatus)
       THEN /\ UNCHANGED <<attachments, attDir>>
            /\ attachLast' = [NoAttachLast EXCEPT
                    !.op = "add", !.sources = sources, !.res = "err",
                    !.why = IF sources = <<>> THEN "NoSources"
                            ELSE "InvalidState",
                    !.saveFails = saveFails, !.mem = attachments,
                    !.pre = attachments, !.preDir = attDir]
       ELSE process_and_save_attachments(sources, saveFails)

\* The files the attachment list names.
FileEntries(att) == {att[i] : i \in {k \in 1..Len(att) : ~is_url(att[k])}}

\* The attachment directory holds exactly the files the item lists.
Consistent == attDir = FileEntries(attachments)

\* The process exits; the next command is a new invocation.  A run of the
\* model ends with the first command that an I/O fault left inconsistent.
AttachExit ==
    /\ attachLast.op # "none"
    /\ Consistent
    /\ attachLast' = NoAttachLast
    /\ UNCHANGED <<itemStatus, attachments, attDir>>
    /\ UNCHANGED <<storeVars, tuiVars>>

InitAttach ==
    /\ InitTui
    /\ files = {}
    /\ closedFrom = {}
    /\ corrupt = {}
    /\ last = [op |-> "none"]
    /\ itemStatus \in {"open", "closed"}
    /\ attachments = <<>>
    /\ attDir = {}
    /\ attachLast = NoAttachLast

\* I/O faults of one command: none, the final save fails, or one file of the
\* attachment directory cannot be deleted.
Faults ==
    {[save |-> FALSE, undeletable |-> {}], [save |-> TRUE, undeletable |-> {}]}
    \cup {[save |-> FALSE, undeletable |-> {f}] : f \in attDir}

AttachAdd ==
    \E sources \in SeqsUpTo(Sources, MaxSources), saveFails \in BOOLEAN :
        /\ attachLast.op = "none"
        /\ Len(attachments) + Len(sources) <= MaxAttachments
        /\ execute_add(sources, saveFails)
        /\ UNCHANGED <<storeVars, tuiVars>>

AttachRemove ==
    \E indices \in SeqsUpTo(0..(Len(attachments) + 1), MaxIndices),
       fault \in Faults :
        /\ attachLast.op = "none"
        /\ execute_remove(indices, fault.undeletable, fault.save)
        /\ UNCHANGED <<storeVars, tuiVars>>

NextAttach == AttachAdd \/ AttachRemove \/ AttachExit

SpecAttach == InitAttach /\ [][NextAttach]_vars

\* The attach commands without I/O faults, on an item that close and reopen
\* move between Open and Closed.
AttachAddNoFault ==
    \E sources \in SeqsUpTo(Sources \ UncopyablePaths, MaxSources) :
        /\ attachLast.op = "none"
        /\ Len(attachments) + Len(sources) <= MaxAttachments
        /\ execute_add(sources, FALSE)
        /\ UNCHANGED <<storeVars, tuiVars>>

AttachRemoveNoFault ==
    \E indices \in SeqsUpTo(0..(Len(attachments) + 1), MaxIndices) :
        /\ attachLast.op = "none"
        /\ execute_remove(indices, {}, FALSE)
        /\ UNCHANGED <<storeVars, tuiVars>>

\* close / reopen of the item: its status flips, its attachments stay.
AttachCloseReopen ==
    /\ attachLast.op = "none"
    /\ itemStatus' = IF itemStatus = "open" THEN "closed" ELSE "open"
    /\ UNCHANGED <<attachments, attDir, attachLast>>
    /\ UNCHANGED <<storeVars, tuiVars>>

NextAttachClosed ==
    AttachAddNoFault \/ AttachRemoveNoFault \/ AttachCloseReopen \/ AttachExit

SpecAttachClosed == InitAttach /\ [][NextAttachClosed]_vars

\* ------------------------------------------------------------ strings
\* A string is a tuple of characters; Option<T> is a set of at most one T.
Some(x) == {x}
Get(opt) == CHOOSE x \in opt : TRUE

to_lower(c) ==
    CASE c = "A" -> "a" [] c = "B" -> "b" [] c = "C" -> "c" [] c = "U" -> "u"
      [] OTHER -> c

to_lowercase(s) == [i \in 1..Len(s) |-> to_lower(s[i])]

is_whitespace(c) == c = " "

RECURSIVE trim_start(_)
trim_start(s) ==
    IF s # <<>> /\ is_whitespace(Head(s)) THEN trim_start(Tail(s)) ELSE s

trim(s) == reverse(trim_start(reverse(trim_start(s))))

\* item::normalize_identifier: trimmed, lowercase, spaces replaced by hyphens.
normalize_identifier(s) ==
    LET t == to_lowercase(trim(s))
    IN  [i \in 1..Len(t) |-> IF t[i] = " " THEN "-" ELSE t[i]]

\* Characters a slug keeps; every other character becomes a hyphen.
SlugChars == {"a", "b", "c", "i", "u"}
SlugMaxLen == 50

RECURSIVE collapse_hyphens(_)
collapse_hyphens(s) ==
    IF Len(s) <= 1 THEN s
    ELSE IF s[1] = "-" /\ s[2] = "-" THEN collapse_hyphens(Tail(s))
    ELSE <<s[1]>> \o collapse_hyphens(Tail(s))

RECURSIVE trim_hyphens_start(_)
trim_hyphens_start(s) ==
    IF s # <<>> /\ Head(s) = "-" THEN trim_hyphens_start(Tail(s)) ELSE s

\* item::slugify: lowercase, invalid characters to hyphens, repeated hyphens
\* collapsed, leading and trailing hyphens trimmed, truncated.
slugify(title) ==
    LET l == to_lowercase(title)
        h == [i \in 1..Len(l) |-> IF l[i] \in SlugChars THEN l[i] ELSE "-"]
        t == reverse(trim_hyphens_start(reverse(trim_hyphens_start(collapse_hyphens(h)))))
    IN  SubSeq(t, 1, IF Len(t) < SlugMaxLen THEN Len(t) ELSE SlugMaxLen)

\* Item::filename: <id>-<slug>, the id alone when the slug is empty.
Filename(id, title) == <<id, slugify(title)>>

\* ------------------------------------------------------------ paths
StackRoot == "stack"
ArchiveRoot == "archive"
TemplateRoot == "templates"
Roots == {StackRoot, ArchiveRoot, TemplateRoot}

\* storage::resolve_target_dir: the root, or the category directory below it
\* (joining the empty string leaves the root).
resolve_target_dir(root, category) ==
    IF category = {} \/ category = {<<>>} THEN <<root>>
    ELSE <<root, Get(category)>>

\* storage::derive_category: None directly under the root, else the first
\* directory segment below the root.
derive_category(dir) == IF Len(dir) <= 1 THEN {} ELSE Some(dir[2])

Path(f) == <<f.dir, f.name>>
Paths(fs) == {Path(f) : f \in fs}
FileAt(fs, path) == CHOOSE f \in fs : Path(f) = path

\* ------------------------------------------------------------ inputs
Ids == {<<"1", "A">>, <<"1", "B">>}
TitleAB == <<"A", " ", "b">>
TitleC == <<"C">>
Blank == <<" ">>
CategoryUi == <<"U", "i">>
\* Titles and categories that pass validation.
TitleInputs == {TitleAB, TitleC}
CategoryInputs == {CategoryUi}
CREATE_MAX_ATTEMPTS == 2

IsPrefix(p, t) == Len(p) <= Len(t) /\ SubSeq(t, 1, Len(p)) = p

\* ------------------------------------------------------------ storage
\* Item::load(path): the file's content parses, or the load is a ParseError.
Parses(f) == Path(f) \notin corrupt

\* config.user_name_or_prompt(): the configured author.
author == <<"u">>

\* storage::find_and_load / ItemRef::resolve: an id or id prefix is looked up
\* among the stack and archive items, a file path is loaded directly.
Matches(fs, ref) ==
    IF ref.kind = "file" THEN {f \in fs : Path(f) = ref.path}
    ELSE {f \in fs : f.dir[1] \in {StackRoot, ArchiveRoot} /\ IsPrefix(ref.id, f.name[1])}

MutResolvePicksOne(fs, ref) ==
    LET m == Matches(fs, ref)
    IN  IF m = {} THEN [res |-> "NotFound", item |-> {}]
        ELSE [res |-> "ok", item |-> {CHOOSE f \in m : TRUE}]

resolve(fs, ref) ==
    LET m == Matches(fs, ref)
    IN  IF m = {} THEN [res |-> "NotFound", item |-> {}]
        ELSE IF Cardinality(m) > 1 THEN [res |-> "AmbiguousReference", item |-> {}]
        ELSE IF Parses(Get(m)) THEN [res |-> "ok", item |-> m]
        ELSE [res |-> "ParseError", item |-> {}]

\* storage::create_item / create_template: the file is written only where no
\* file exists; on a collision the id is regenerated, a bounded number of times.
MutCreateFileOverwrites(fs, root, fm, category, regenerated) ==
    LET f == [dir |-> resolve_target_dir(root, category),
              name |-> Filename(fm.id, fm.title), fm |-> fm]
    IN  [res |-> "ok", attempts |-> 1, path |-> Some(Path(f)),
         tried |-> <<Path(f)>>,
         files |-> {g \in fs : Path(g) # Path(f)} \cup {f}]

create_file(fs, root, fm, category, regenerated) ==
    LET dir == resolve_target_dir(root, category)
        all == <<fm.id>> \o regenerated
        ids == SubSeq(all, 1, IF Len(all) < CREATE_MAX_ATTEMPTS THEN Len(all)
                              ELSE CREATE_MAX_ATTEMPTS)
        dest == [k \in 1..Len(ids) |-> <<dir, Filename(ids[k], fm.title)>>]
        free == {k \in 1..Len(ids) : dest[k] \notin Paths(fs)}
    IN  IF free = {}
        THEN [res |-> "AlreadyExists", attempts |-> Len(ids), path |-> {},
              tried |-> dest, files |-> fs]
        ELSE LET k == CHOOSE k \in free : \A j \in free : k <= j
                 f == [dir |-> dir, name |-> dest[k][2],
                       fm |-> [fm EXCEPT !.id = ids[k]]]
             IN  [res |-> "ok", attempts |-> k, path |-> Some(Path(f)),
                  tried |-> SubSeq(dest, 1, k), files |-> fs \cup {f}]

\* Item::save: the file at the path is overwritten with the item.
save(fs, path, fm) ==
    {IF Path(f) = path THEN [f EXCEPT !.fm = fm] ELSE f : f \in fs}

\* storage::rename_item: AlreadyExists when the destination name is taken.
rename_item(fs, path, new_filename) ==
    LET dest == <<path[1], new_filename>>
    IN  IF dest \in Paths(fs) THEN [res |-> "AlreadyExists", path |-> path, files |-> fs]
        ELSE [res |-> "ok", path |-> dest,
              files |-> {IF Path(f) = path THEN [f EXCEPT !.name = new_filename] ELSE f : f \in fs}]

\* A file moved to another directory, its name kept.
move_file(fs, path, dir) ==
    LET dest == <<dir, path[2]>>
    IN  IF dest \in Paths(fs) THEN [res |-> "AlreadyExists", path |-> path, files |-> fs]
        ELSE [res |-> "ok", path |-> dest,
              files |-> {IF Path(f) = path THEN [f EXCEPT !.dir = dir] ELSE f : f \in fs}]

\* storage::move_to_category: to the category directory under the same root.
move_to_category(fs, path, category) ==
    move_file(fs, path, resolve_target_dir(path[1][1], category))

\* Item::add_label / Item::remove_label
add_label(labels, label) ==
    LET n == normalize_identifier(label)
    IN  IF n \in Range(labels) THEN labels ELSE Append(labels, n)

remove_label(labels, normalized) == SelectSeq(labels, LAMBDA l : l # normalized)

RECURSIVE AddLabels(_, _)
AddLabels(labels, toAdd) ==
    IF toAdd = <<>> THEN labels
    ELSE AddLabels(add_label(labels, Head(toAdd)), Tail(toAdd))

\* The remove-labels loop of update: [labels, changed].
RECURSIVE MutRemoveLabelsVerbatim(_, _)
MutRemoveLabelsVerbatim(acc, toRemove) ==
    IF toRemove = <<>> THEN acc
    ELSE IF Head(toRemove) \in Range(acc.labels)
         THEN MutRemoveLabelsVerbatim(
                  [labels |-> remove_label(acc.labels, Head(toRemove)),
                   changed |-> TRUE], Tail(toRemove))
         ELSE MutRemoveLabelsVerbatim(acc, Tail(toRemove))

RECURSIVE RemoveLabels(_, _)
RemoveLabels(acc, toRemove) ==
    IF toRemove = <<>> THEN acc
    ELSE LET normalized == normalize_identifier(Head(toRemove))
         IN  IF normalized \in Range(acc.labels)
             THEN RemoveLabels([labels |-> remove_label(acc.labels, normalized),
                                changed |-> TRUE], Tail(toRemove))
             ELSE RemoveLabels(acc, Tail(toRemove))

is_empty_trimmed(s) == trim(s) = <<>>

NoLast ==
    [op |-> "none", res |-> "none", args |-> {}, pre |-> {}, prePath |-> {},
     path |-> {}, saved |-> FALSE, renamed |-> FALSE, moved |-> FALSE,
     attempts |-> 0, tried |-> <<>>, out |-> {}]

\* ------------------------------------------------------------ new
\* commands/new.rs execute: the status by --as-template.
MutStatusAlwaysOpen(as_template) == "open"

NewStatus(as_template) == IF as_template THEN "template" ELSE "open"

\* commands/new.rs execute: create_template or create_item by --as-template.
NewRoot(as_template) == IF as_template THEN TemplateRoot ELSE StackRoot

\* args.category.as_deref().map(normalize_identifier)
MutCategoryNotNormalized(category) == category

normalize_category(category) ==
    IF category = {} THEN {} ELSE Some(normalize_identifier(Get(category)))

NewArgsValid(args) ==
    /\ ~is_empty_trimmed(Get(args.title))
    /\ \A k \in 1..Len(args.labels) : ~is_empty_trimmed(args.labels[k])
    /\ args.category # {} => ~is_empty_trimmed(Get(args.category))

\* new <title> [--label ..] [--category ..] [--as-template], without attachments
\* and outside a terminal.  args.id is the generated id, args.regenerated the
\* ids generated on retries.
execute_new(args) ==
    LET report == [NoLast EXCEPT !.op = "new", !.args = args, !.pre = files]
    IN
    IF args.title = {}
       THEN /\ last' = [report EXCEPT !.res = "TitleRequired"]
            /\ UNCHANGED files
       ELSE IF ~NewArgsValid(args)
       THEN /\ last' = [report EXCEPT !.res = "ValidationError"]
            /\ UNCHANGED files
       ELSE LET labels == [k \in 1..Len(args.labels) |->
                                normalize_identifier(args.labels[k])]
                category == normalize_category(args.category)
                frontmatter == [id |-> args.id, title |-> Get(args.title),
                                status |-> NewStatus(args.as_template),
                                labels |-> labels, body |-> <<>>,
                                author |-> author]
                c == create_file(files, NewRoot(args.as_template), frontmatter,
                                 category, args.regenerated)
            IN  /\ files' = c.files
                /\ last' = [report EXCEPT !.res = c.res, !.path = c.path,
                                          !.attempts = c.attempts,
                                          !.tried = c.tried]

\* ------------------------------------------------------------ new --from-template
\* storage::find_template: a template by id (or id prefix) or by title.
find_template(fs, reference) ==
    LET m == {f \in fs : /\ f.dir[1] = TemplateRoot
                         /\ \/ IsPrefix(reference, f.name[1])
                            \/ /\ Parses(f)
                               /\ to_lowercase(f.fm.title) = to_lowercase(reference)}
    IN  IF m = {} THEN [res |-> "NotFound", item |-> {}]
        ELSE IF Cardinality(m) > 1 THEN [res |-> "AmbiguousReference", item |-> {}]
        ELSE [res |-> "ok", item |-> m]

\* The CLI category if specified, otherwise the template's.
MutSpawnCategoryCliOnly(cli, template_category) == normalize_category(cli)

SpawnCategory(cli, template_category) ==
    IF cli # {} THEN normalize_category(cli) ELSE template_category

\* item.body.clone_from(&template.body)
MutSpawnBodyEmpty(template) == <<>>

SpawnBody(template) == template.fm.body

\* commands/new.rs execute_from_template with a template reference.
execute_from_template(args) ==
    LET report == [NoLast EXCEPT !.op = "from_template", !.args = args,
                                 !.pre = files]
        t == find_template(files, args.from_template)
    IN
    IF t.res # "ok"
       THEN /\ last' = [report EXCEPT !.res = t.res]
            /\ UNCHANGED files
       ELSE IF ~Parses(Get(t.item))
       THEN /\ last' = [report EXCEPT !.res = "ParseError",
                                      !.prePath = Some(Path(Get(t.item)))]
            /\ UNCHANGED files
       ELSE LET template == Get(t.item)
                template_category == derive_category(template.dir)
                category == SpawnCategory(args.category, template_category)
                labels == AddLabels(template.fm.labels, args.labels)
            IN  IF args.title = {}
                THEN /\ last' = [report EXCEPT !.res = "TitleRequired",
                                               !.prePath = Some(Path(template))]
                     /\ UNCHANGED files
                ELSE IF is_empty_trimmed(Get(args.title))
                THEN /\ last' = [report EXCEPT !.res = "ValidationError",
                                               !.prePath = Some(Path(template))]
                     /\ UNCHANGED files
                ELSE LET frontmatter == [id |-> args.id, title |-> Get(args.title),
                                         status |-> "open", labels |-> labels,
                                         body |-> SpawnBody(template),
                                         author |-> author]
                         c == create_file(files, StackRoot, frontmatter, category,
                                          args.regenerated)
                     IN  /\ files' = c.files
                         /\ last' = [report EXCEPT !.res = c.res, !.path = c.path,
                                                   !.prePath = Some(Path(template)),
                                                   !.attempts = c.attempts,
                                                   !.tried = c.tried]

\* ------------------------------------------------------------ update
UpdateArgsValid(args) ==
    /\ args.title # {} => ~is_empty_trimmed(Get(args.title))
    /\ \A k \in 1..Len(args.labels) : ~is_empty_trimmed(args.labels[k])
    /\ \A k \in 1..Len(args.remove_labels) : ~is_empty_trimmed(args.remove_labels[k])
    /\ args.category # {} => ~is_empty_trimmed(Get(args.category))

\* commands/update.rs: whether the category changes.
MutCategoryChangedInverted(remove_category, new_category, current_category) ==
    IF remove_category THEN current_category = {}
    ELSE IF new_category # {} THEN current_category # new_category
    ELSE FALSE

CategoryChanged(remove_category, new_category, current_category) ==
    IF remove_category THEN current_category # {}
    ELSE IF new_category # {} THEN current_category # new_category
    ELSE FALSE

\* commands/update.rs: the file is renamed when the title changed its name.
MutNeverRename(old_filename, new_filename) == FALSE

NeedsRename(old_filename, new_filename) == old_filename # new_filename

\* commands/update.rs: a title is set only when it differs from the current.
MutTitleAlwaysChanged(title, current) == title # {}

TitleChanged(title, current) == title # {} /\ Get(title) # current

\* commands/update.rs execute.
execute_update(args) ==
    LET report == [NoLast EXCEPT !.op = "update", !.args = args, !.pre = files]
        r == resolve(files, args.ref)
    IN
    IF ~UpdateArgsValid(args)
       THEN /\ last' = [report EXCEPT !.res = "ValidationError"]
            /\ UNCHANGED files
       ELSE IF r.res # "ok"
       THEN /\ last' = [report EXCEPT !.res = r.res]
            /\ UNCHANGED files
       ELSE
       LET item == Get(r.item)
           path == Path(item)
           old_filename == Filename(item.fm.id, item.fm.title)
           titleChanged == TitleChanged(args.title, item.fm.title)
           fm1 == IF titleChanged THEN [item.fm EXCEPT !.title = Get(args.title)]
                  ELSE item.fm
           added == AddLabels(fm1.labels, args.labels)
           removed == RemoveLabels([labels |-> added, changed |-> FALSE],
                                   args.remove_labels)
           fm2 == [fm1 EXCEPT !.labels = removed.labels]
           new_category == normalize_category(args.category)
           current_category == derive_category(item.dir)
           category_changed == CategoryChanged(args.remove_category, new_category,
                                               current_category)
           changed == \/ titleChanged
                      \/ args.labels # <<>>
                      \/ removed.changed
                      \/ category_changed
           report1 == [report EXCEPT !.prePath = Some(path)]
       IN
       IF ~changed
       THEN /\ last' = [report1 EXCEPT !.res = "ok", !.path = Some(path)]
            /\ UNCHANGED files
       ELSE
       LET saved == save(files, path, fm2)
           new_filename == Filename(fm2.id, fm2.title)
           rn == IF NeedsRename(old_filename, new_filename)
                 THEN rename_item(saved, path, new_filename)
                 ELSE [res |-> "ok", path |-> path, files |-> saved]
           category == IF args.remove_category THEN {} ELSE new_category
           mv == IF category_changed
                 THEN move_to_category(rn.files, rn.path, category)
                 ELSE [res |-> "ok", path |-> rn.path, files |-> rn.files]
           report2 == [report1 EXCEPT !.saved = TRUE]
       IN
       IF rn.res # "ok"
       THEN /\ files' = saved
            /\ last' = [report2 EXCEPT !.res = rn.res, !.path = Some(path)]
       ELSE IF mv.res # "ok"
       THEN /\ files' = rn.files
            /\ last' = [report2 EXCEPT !.res = mv.res, !.path = Some(rn.path),
                                       !.renamed = rn.path # path]
       ELSE /\ files' = mv.files
            /\ last' = [report2 EXCEPT !.res = "ok", !.path = Some(mv.path),
                                       !.renamed = rn.path # path,
                                       !.moved = mv.path # rn.path]

\* ------------------------------------------------------------ close / reopen
\* storage::archive_item / unarchive_item: the same category subpath under the
\* other root.
archive_dir(dir) == <<ArchiveRoot>> \o Tail(dir)

MutUnarchiveDropsCategory(dir) == <<StackRoot>>

unarchive_dir(dir) == <<StackRoot>> \o Tail(dir)

\* close <id>: status Closed is saved, then the file moves to the archive.
execute_close(ref) ==
    LET report == [NoLast EXCEPT !.op = "close", !.args = ref, !.pre = files]
        r == resolve(files, ref)
    IN
    IF r.res # "ok"
    THEN /\ last' = [report EXCEPT !.res = r.res]
         /\ UNCHANGED files
    ELSE
    LET item == Get(r.item)
        path == Path(item)
        report1 == [report EXCEPT !.prePath = Some(path)]
    IN
    IF item.fm.status # "open"
    THEN /\ last' = [report1 EXCEPT !.res = "InvalidState"]
         /\ UNCHANGED files
    ELSE
    LET saved == save(files, path, [item.fm EXCEPT !.status = "closed"])
        mv == move_file(saved, path, archive_dir(item.dir))
    IN  /\ files' = mv.files
        /\ last' = [report1 EXCEPT !.res = mv.res, !.saved = TRUE,
                                   !.path = Some(mv.path),
                                   !.moved = mv.res = "ok"]

\* reopen <id>: status Open is saved, then the file moves back to the stack.
execute_reopen(ref) ==
    LET report == [NoLast EXCEPT !.op = "reopen", !.args = ref, !.pre = files]
        r == resolve(files, ref)
    IN
    IF r.res # "ok"
       THEN /\ last' = [report EXCEPT !.res = r.res]
            /\ UNCHANGED files
       ELSE
       LET item == Get(r.item)
           path == Path(item)
           report1 == [report EXCEPT !.prePath = Some(path)]
       IN
       IF item.fm.status # "closed"
       THEN /\ last' = [report1 EXCEPT !.res = "InvalidState"]
            /\ UNCHANGED files
       ELSE
       LET saved == save(files, path, [item.fm EXCEPT !.status = "open"])
           mv == move_file(saved, path, unarchive_dir(item.dir))
       IN  /\ files' = mv.files
           /\ last' = [report1 EXCEPT !.res = mv.res, !.saved = TRUE,
                                      !.path = Some(mv.path),
                                      !.moved = mv.res = "ok"]

\* ------------------------------------------------------------ enumeration
\* storage::walk_items / walk_archived / walk_all: the files below the stack
\* root, below the archive root, and both.
walk_items(fs) == {f \in fs : f.dir[1] = StackRoot}
walk_archived(fs) == {f \in fs : f.dir[1] = ArchiveRoot}
walk_all(fs) == walk_items(fs) \cup walk_archived(fs)

\* paths.filter_map(|path| Item::load(&path).ok()): the items that load.
MutLoadedKeepsUnparseable(paths) == paths

Loaded(paths) == {f \in paths : Parses(f)}

eq_ignore_ascii_case(a, b) == to_lowercase(a) = to_lowercase(b)

\* commands/list.rs apply_item_filter.
apply_item_filter(item, filter) ==
    /\ filter.label # {} =>
          \E k \in 1..Len(item.fm.labels) :
              eq_ignore_ascii_case(item.fm.labels[k], Get(filter.label))
    /\ filter.author # {} =>
          eq_ignore_ascii_case(item.fm.author, Get(filter.author))

\* commands/list.rs collect_items.
MutCollectItemsEverywhere(fs, include_archived, filter) ==
    {item \in Loaded(fs) : apply_item_filter(item, filter)}

collect_items(fs, include_archived, filter) ==
    LET paths == IF include_archived THEN walk_archived(fs) ELSE walk_items(fs)
    IN  {item \in Loaded(paths) : apply_item_filter(item, filter)}

\* str::contains.
contains(s, q) ==
    \E i \in 0..(Len(s) - Len(q)) : SubSeq(s, i + 1, i + Len(q)) = q

\* commands/search.rs matches_query: the query is already lowercase.
matches_query(item, query, full_text) ==
    \/ contains(to_lowercase(item.fm.title), query)
    \/ contains(to_lowercase(item.fm.id), query)
    \/ full_text /\ contains(to_lowercase(item.fm.body), query)

Listed(op, args, res, out) ==
    /\ last' = [NoLast EXCEPT !.op = op, !.args = args, !.pre = files,
                              !.res = res, !.out = out]
    /\ UNCHANGED files

\* list [--closed] [--label l] [--author a]; the order of display is left out.
execute_list(filter) ==
    Listed("list", filter, "ok",
           collect_items(files, filter.closed,
                         [label |-> filter.label, author |-> filter.author]))

\* search <query> [--closed] [--full-text], not interactive: fails when
\* nothing matches.
execute_search(args) ==
    LET items == collect_items(files, args.closed, [label |-> {}, author |-> {}])
        query_lower == to_lowercase(args.query)
        kept == {item \in items : matches_query(item, query_lower, args.full_text)}
    IN  Listed("search", args, IF kept = {} THEN "NoMatch" ELSE "ok", kept)

\* labels: every label with the number of items that carry it.
execute_labels ==
    LET items == Loaded(walk_all(files))
        all == UNION {Range(item.fm.labels) : item \in items}
    IN  Listed("labels", {}, "ok",
               {<<l, Cardinality({item \in items : l \in Range(item.fm.labels)})>> :
                    l \in all})

\* categories: every category (or none) with the number of its items.
execute_categories ==
    LET items == Loaded(walk_all(files))
        keys == {derive_category(item.dir) : item \in items}
    IN  Listed("categories", {}, "ok",
               {<<c, Cardinality({item \in items : derive_category(item.dir) = c})>> :
                    c \in keys})

\* commands/new.rs collect_existing_metadata: the categories and the labels
\* in use.
collect_existing_metadata ==
    LET items == Loaded(walk_all(files))
    IN  Listed("metadata", {}, "ok",
               [categories |-> UNION {derive_category(item.dir) : item \in items},
                labels |-> UNION {Range(item.fm.labels) : item \in items}])

\* ------------------------------------------------------------ specification
\* An empty store and one open item without attachments.
InitFiles ==
    /\ files = {}
    /\ closedFrom = {}
    /\ corrupt = {}
    /\ last = NoLast
    /\ itemStatus = "open"
    /\ attachments = <<>>
    /\ attDir = {}
    /\ attachLast = NoAttachLast

Init ==
    /\ InitTui
    /\ InitFiles

OptionOf(S) == {{}} \cup {{x} : x \in S}

IdRefs == {[kind |-> "id", id |-> i] : i \in Ids \cup {<<"1">>}}
FileRefs == {[kind |-> "file", path |-> Path(f)] : f \in {g \in files : g.dir[1] = TemplateRoot}}

\* id::generate is random: any id.  Ids are regenerated only on a collision:
\* a command that made one attempt generated no further id.
RetryIds == [1..(CREATE_MAX_ATTEMPTS - 1) -> Ids]
NoRetry(id) == [k \in 1..(CREATE_MAX_ATTEMPTS - 1) |-> id]

\* A first attempt can collide only where a file of that name exists.
NameTaken(id, title) ==
    \E f \in files : f.name = Filename(id, Get(title))

New ==
    /\ last.op = "none"
    /\ \E title \in {Some(t) : t \in TitleInputs}, category \in OptionOf(CategoryInputs),
          as_template \in BOOLEAN, id \in Ids, regenerated \in RetryIds :
        /\ regenerated # NoRetry(id) => NameTaken(id, title)
        /\ execute_new([title |-> title, labels |-> <<>>, category |-> category,
                        as_template |-> as_template, id |-> id,
                        regenerated |-> regenerated])
        /\ last'.attempts <= 1 => regenerated = NoRetry(id)
        /\ Cardinality(files') <= MaxFiles
        /\ UNCHANGED <<closedFrom, corrupt, attachVars, tuiVars>>

NewFromTemplate ==
    /\ last.op = "none"
    /\ \E reference \in Ids, title \in {Some(t) : t \in TitleInputs},
          category \in OptionOf(CategoryInputs), id \in Ids,
          regenerated \in RetryIds :
        /\ \E f \in files : f.dir[1] = TemplateRoot
        /\ regenerated # NoRetry(id) => NameTaken(id, title)
        /\ execute_from_template([from_template |-> reference, title |-> title,
                                  labels |-> <<>>, category |-> category,
                                  id |-> id, regenerated |-> regenerated])
        /\ last'.attempts <= 1 => regenerated = NoRetry(id)
        /\ Cardinality(files') <= MaxFiles
        /\ UNCHANGED <<closedFrom, corrupt, attachVars, tuiVars>>

Update ==
    /\ last.op = "none"
    /\ \E ref \in IdRefs \cup FileRefs, title \in OptionOf(TitleInputs),
          category \in OptionOf(CategoryInputs), remove_category \in BOOLEAN :
        /\ execute_update([ref |-> ref, title |-> title, labels |-> <<>>,
                           remove_labels |-> <<>>, category |-> category,
                           remove_category |-> remove_category])
        /\ UNCHANGED <<closedFrom, corrupt, attachVars, tuiVars>>

Close ==
    /\ last.op = "none"
    /\ \E ref \in IdRefs :
        /\ execute_close(ref)
        /\ UNCHANGED <<closedFrom, corrupt, attachVars, tuiVars>>

Reopen ==
    /\ last.op = "none"
    /\ \E ref \in IdRefs :
        /\ execute_reopen(ref)
        /\ UNCHANGED <<closedFrom, corrupt, attachVars, tuiVars>>

\* A command that failed after it changed a file left the store half-done.
HalfDone == last.res # "ok" /\ files # last.pre

\* The process exits; the next command is a new invocation.  A run of the
\* model ends with the first command that was left half-done.
Exit ==
    /\ last.op # "none"
    /\ ~HalfDone
    /\ last' = NoLast
    /\ UNCHANGED <<files, closedFrom, corrupt>>
    /\ UNCHANGED <<attachVars, tuiVars>>

\* Close and reopen that also remember what the last close did.
CloseRemembering ==
    \E ref \in IdRefs :
        /\ last.op = "none"
        /\ execute_close(ref)
        /\ closedFrom' = IF last'.res = "ok"
                         THEN Some([file |-> FileAt(files, Get(last'.prePath)),
                                    to |-> Get(last'.path)])
                         ELSE closedFrom
        /\ UNCHANGED <<corrupt, attachVars, tuiVars>>

NextCloseReopen == New \/ CloseRemembering \/ Reopen \/ Exit

SpecCloseReopen == Init /\ [][NextCloseReopen]_vars

\* The commands with arguments that are blank or not: validation.
LabelC == <<"c">>
TitleArgs == {TitleC, Blank}
LabelArgs == {<<>>, <<Blank>>, <<LabelC>>}
CategoryArgs == OptionOf({CategoryUi, Blank})

NewChecked ==
    \E title \in TitleArgs, labels \in LabelArgs, category \in CategoryArgs,
       as_template \in BOOLEAN, id \in Ids :
        /\ last.op = "none"
        /\ execute_new([title |-> Some(title), labels |-> labels,
                        category |-> category, as_template |-> as_template,
                        id |-> id, regenerated |-> NoRetry(id)])
        /\ Cardinality(files') <= MaxFiles
        /\ UNCHANGED <<closedFrom, corrupt, attachVars, tuiVars>>

NewFromTemplateChecked ==
    \E reference \in Ids, title \in TitleArgs, labels \in LabelArgs,
       category \in CategoryArgs, id \in Ids :
        /\ last.op = "none"
        /\ \E f \in files : f.dir[1] = TemplateRoot
        /\ execute_from_template([from_template |-> reference,
                                  title |-> Some(title), labels |-> labels,
                                  category |-> category, id |-> id,
                                  regenerated |-> NoRetry(id)])
        /\ Cardinality(files') <= MaxFiles
        /\ UNCHANGED <<closedFrom, corrupt, attachVars, tuiVars>>

UpdateChecked ==
    \E ref \in IdRefs, title \in OptionOf(TitleArgs), labels \in LabelArgs,
       remove_labels \in LabelArgs, category \in CategoryArgs :
        /\ last.op = "none"
        /\ execute_update([ref |-> ref, title |-> title, labels |-> labels,
                           remove_labels |-> remove_labels,
                           category |-> category, remove_category |-> FALSE])
        /\ UNCHANGED <<closedFrom, corrupt, attachVars, tuiVars>>

NextValidation == NewChecked \/ NewFromTemplateChecked \/ UpdateChecked \/ Exit

SpecValidation == Init /\ [][NextValidation]_vars

\* Enumeration over a store in which files get damaged.
Shapes ==
    {[labels |-> <<>>, category |-> {}],
     [labels |-> <<LabelC>>, category |-> Some(CategoryUi)]}

NewLabelled ==
    \E shape \in Shapes, as_template \in BOOLEAN, id \in Ids :
        /\ last.op = "none"
        /\ execute_new([title |-> Some(TitleC), labels |-> shape.labels,
                        category |-> shape.category, as_template |-> as_template,
                        id |-> id, regenerated |-> NoRetry(id)])
        /\ Cardinality(files') <= MaxFiles
        /\ UNCHANGED <<closedFrom, corrupt, attachVars, tuiVars>>

\* Somebody edits a file by hand and breaks its metadata header.
Damage ==
    \E f \in files :
        /\ last.op = "none"
        /\ Parses(f)
        /\ corrupt' = corrupt \cup {Path(f)}
        /\ UNCHANGED <<files, closedFrom, last, attachVars, tuiVars>>

Filters ==
    [closed : BOOLEAN, label : OptionOf({LabelC}),
     author : OptionOf({<<"U">>})]

List ==
    \E filter \in Filters :
        /\ last.op = "none"
        /\ execute_list(filter)
        /\ UNCHANGED <<closedFrom, corrupt, attachVars, tuiVars>>

Search ==
    \E closed \in BOOLEAN, query \in {<<"A">>, <<"b">>} :
        /\ last.op = "none"
        /\ execute_search([closed |-> closed, query |-> query, full_text |-> FALSE])
        /\ UNCHANGED <<closedFrom, corrupt, attachVars, tuiVars>>

Summaries ==
    /\ last.op = "none"
    /\ execute_labels \/ execute_categories \/ collect_existing_metadata
    /\ UNCHANGED <<closedFrom, corrupt, attachVars, tuiVars>>

NewFromTemplateLoad ==
    \E reference \in Ids, id \in Ids :
        /\ last.op = "none"
        /\ \E f \in files : f.dir[1] = TemplateRoot
        /\ execute_from_template([from_template |-> reference,
                                  title |-> Some(TitleC), labels |-> <<>>,
                                  category |-> {}, id |-> id,
                                  regenerated |-> NoRetry(id)])
        /\ Cardinality(files') <= MaxFiles
        /\ UNCHANGED <<closedFrom, corrupt, attachVars, tuiVars>>

NextListing ==
    \/ NewLabelled \/ NewFromTemplateLoad \/ Close \/ Damage
    \/ List \/ Search \/ Summaries \/ Exit

SpecListing == Init /\ [][NextListing]_vars

\* The commands with --label arguments that repeat a label or spell it in
\* two ways, on a store of at most one file per root.
LabelAb == <<"a", "-", "b">>
LabelLists ==
    {<<>>, <<TitleAB>>, <<LabelAb>>, <<LabelC>>, <<TitleAB, LabelAb>>,
     <<LabelC, LabelC>>, <<LabelC, TitleAB>>}

RemoveLists == {<<>>, <<TitleAB>>, <<LabelC, LabelAb>>}

OnePerRoot(fs) == \A f, g \in fs : f.dir[1] = g.dir[1] => f = g

NewWithLabels ==
    \E labels \in LabelLists, as_template \in BOOLEAN, id \in Ids :
        /\ last.op = "none"
        /\ execute_new([title |-> Some(TitleC), labels |-> labels,
                        category |-> {}, as_template |-> as_template,
                        id |-> id, regenerated |-> NoRetry(id)])
        /\ OnePerRoot(files')
        /\ UNCHANGED <<closedFrom, corrupt, attachVars, tuiVars>>

NewFromTemplateWithLabels ==
    \E reference \in Ids, labels \in LabelLists, id \in Ids :
        /\ last.op = "none"
        /\ \E f \in files : f.dir[1] = TemplateRoot
        /\ execute_from_template([from_template |-> reference,
                                  title |-> Some(TitleC), labels |-> labels,
                                  category |-> {}, id |-> id,
                                  regenerated |-> NoRetry(id)])
        /\ OnePerRoot(files')
        /\ UNCHANGED <<closedFrom, corrupt, attachVars, tuiVars>>

UpdateLabels ==
    \E ref \in IdRefs, labels \in LabelLists, remove_labels \in RemoveLists :
        /\ last.op = "none"
        /\ execute_update([ref |-> ref, title |-> {}, labels |-> labels,
                           remove_labels |-> remove_labels,
                           category |-> {}, remove_category |-> FALSE])
        /\ UNCHANGED <<closedFrom, corrupt, attachVars, tuiVars>>

NextLabels == NewWithLabels \/ NewFromTemplateWithLabels \/ UpdateLabels \/ Exit

SpecLabels == Init /\ [][NextLabels]_vars

\* Templates, their bodies written in the editor, and items spawned from them.
NewTemplate ==
    \E category \in OptionOf(CategoryInputs), id \in Ids :
        /\ last.op = "none"
        /\ execute_new([title |-> Some(TitleC), labels |-> <<>>,
                        category |-> category, as_template |-> TRUE,
                        id |-> id, regenerated |-> NoRetry(id)])
        /\ Cardinality(files') <= MaxFiles
        /\ UNCHANGED <<closedFrom, corrupt, attachVars, tuiVars>>

\* editor::open: the user writes the body of a file and saves it.
EditBody ==
    \E f \in files :
        /\ last.op = "none"
        /\ f.dir[1] = TemplateRoot
        /\ f.fm.body = <<>>
        /\ files' = (files \ {f}) \cup {[f EXCEPT !.fm.body = <<"b">>]}
        /\ UNCHANGED <<closedFrom, corrupt, last, attachVars, tuiVars>>

Spawn ==
    \E reference \in Ids \cup {<<"c">>}, category \in OptionOf(CategoryInputs),
       id \in Ids :
        /\ last.op = "none"
        /\ \E f \in files : f.dir[1] = TemplateRoot
        /\ execute_from_template([from_template |-> reference,
                                  title |-> Some(TitleAB), labels |-> <<>>,
                                  category |-> category, id |-> id,
                                  regenerated |-> NoRetry(id)])
        /\ Cardinality(files') <= MaxFiles
        /\ UNCHANGED <<closedFrom, corrupt, attachVars, tuiVars>>

NextTemplate == NewTemplate \/ EditBody \/ Spawn \/ Exit

SpecTemplate == Init /\ [][NextTemplate]_vars

Next == New \/ NewFromTemplate \/ Update \/ Close \/ Reopen \/ Exit

Spec == Init /\ [][Next]_vars

\* ================================================================= claims
\* The sequence s without the entries at the 1-based positions in drop.
KeepPositions(s, drop) ==
    LET F[i \in 0..Len(s)] ==
            IF i = 0 THEN <<>>
            ELSE IF i \in drop THEN F[i - 1] ELSE Append(F[i - 1], s[i])
    IN  F[Len(s)]

SomeIndexInvalid(indices, n) ==
    \E k \in 1..Len(indices) : indices[k] = 0 \/ indices[k] > n

\* C1: attach remove validates every requested 1-based index before removing
\* anything: when some requested index is 0 or greater than the number of
\* attachments, the command fails, no attachment is removed, no attachment
\* file is deleted (or tried) and the item file is not rewritten.
C1_InvalidIndexRemovesNothing ==
    (attachLast.op = "remove"
        /\ SomeIndexInvalid(attachLast.indices, Len(attachLast.pre)))
    => /\ attachLast.res = "err"
       /\ attachLast.processed = <<>>
       /\ attachLast.mem = attachLast.pre
       /\ attachments = attachLast.pre
       /\ attDir = attachLast.preDir
       /\ attachLast.deleteTried = {}
       /\ ~attachLast.saved

\* Indices [1, 4] on an item with 3 attachments: 4 is out of bounds.
C1_Witness ==
    /\ attachLast.op = "remove"
    /\ attachLast.indices = <<1, 4>>
    /\ Len(attachLast.pre) = 3
    /\ attachLast.res = "err"

\* C2: with all requested indices valid, attach remove processes them from
\* highest to lowest, each once, and the resulting list is the original list
\* without the entries at the requested original positions, the rest in their
\* original order; the saved item holds that list.
C2_RemovesRequestedPositions ==
    (attachLast.op = "remove"
        /\ attachLast.indices # <<>>
        /\ ~SomeIndexInvalid(attachLast.indices, Len(attachLast.pre)))
    => /\ Range(attachLast.processed) = Range(attachLast.indices)
       /\ \A i, j \in 1..Len(attachLast.processed) :
            i < j => attachLast.processed[i] > attachLast.processed[j]
       /\ attachLast.mem = KeepPositions(attachLast.pre, Range(attachLast.indices))
       /\ attachLast.count = Cardinality(Range(attachLast.indices))
       /\ attachLast.saved = ~attachLast.saveFails
       /\ attachLast.saved => (attachments = attachLast.mem /\ attachLast.res = "ok")

\* Removing [3, 1] from 3 attachments: 3 then 1, leaving the entry of position 2.
C2_Witness ==
    /\ attachLast.op = "remove"
    /\ attachLast.indices = <<3, 1>>
    /\ Len(attachLast.pre) = 3
    /\ attachLast.res = "ok"
    /\ attachLast.processed = <<3, 1>>
    /\ attachments = <<attachLast.pre[2]>>

AddedPositions(results) ==
    {k \in 1..Len(results) : results[k] \in {"UrlAdded", "FileCopied"}}

\* C10: a local source that does not exist yields FileNotFound, appends nothing
\* and does not stop the operation: every later source is still processed, the
\* item is saved, and the returned count is the number of sources that yielded
\* UrlAdded or FileCopied.
C10_FileNotFoundIsNotFatal ==
    (attachLast.op = "add" /\ attachLast.results # <<>>)
    => /\ \A k \in 1..Len(attachLast.results) :
            attachLast.sources[k] \in LocalPaths \ ExistingPaths
            => /\ attachLast.results[k] = "FileNotFound"
               /\ k < Len(attachLast.sources) => Len(attachLast.results) > k
       /\ Len(attachLast.mem) =
            Len(attachLast.pre) + Cardinality(AddedPositions(attachLast.results))
       /\ SubSeq(attachLast.mem, 1, Len(attachLast.pre)) = attachLast.pre
       /\ ("Err" \notin Range(attachLast.results) /\ ~attachLast.saveFails)
            => /\ Len(attachLast.results) = Len(attachLast.sources)
               /\ attachLast.saved
               /\ attachLast.res = "ok"
               /\ attachments = attachLast.mem
               /\ attachLast.count =
                    Cardinality(AddedPositions(attachLast.results))

\* A missing file first, an existing file second: the second is still copied.
C10_Witness ==
    /\ attachLast.op = "add"
    /\ attachLast.sources = <<"gone.txt", "a.txt">>
    /\ attachLast.results = <<"FileNotFound", "FileCopied">>
    /\ attachLast.res = "ok"
    /\ attachLast.count = 1
    /\ Len(attachments) = Len(attachLast.pre) + 1

\* ------------------------------------------------------------ update claims
\* The item the last command resolved, before and after the command.
OldItem == FileAt(last.pre, Get(last.prePath))
NewItem == FileAt(files, Get(last.path))

UpdateOk == last.op = "update" /\ last.res = "ok" /\ last.prePath # {}
NoLabelArgs == last.args.labels = <<>> /\ last.args.remove_labels = <<>>
CategoryOnly ==
    /\ UpdateOk
    /\ last.args.title = {}
    /\ NoLabelArgs
    /\ last.args.remove_category \/ last.args.category # {}

\* C3: an update that changes only the category moves the file and never
\* writes the item's metadata.
C3_CategoryChangeWritesNoMetadata ==
    (CategoryOnly /\ last.moved) => ~last.saved

TitleOnly ==
    /\ UpdateOk
    /\ last.args.title # {}
    /\ Get(last.args.title) # OldItem.fm.title
    /\ last.args.category = {}
    /\ ~last.args.remove_category
    /\ NoLabelArgs

\* C4: a successful title-only update leaves the file in its directory under
\* the same id with the slug of the new title; the id and the category of
\* the item do not change, and no other file is touched.
C4_TitleUpdateRenames ==
    TitleOnly =>
        /\ Get(last.path) \in Paths(files)
        /\ NewItem.name = <<OldItem.name[1], slugify(Get(last.args.title))>>
        /\ NewItem.dir = OldItem.dir
        /\ derive_category(NewItem.dir) = derive_category(OldItem.dir)
        /\ NewItem.fm = [OldItem.fm EXCEPT !.title = Get(last.args.title)]
        /\ NewItem.name # OldItem.name => Path(OldItem) \notin Paths(files)
        /\ files \ {NewItem} = last.pre \ {OldItem}

C4_Witness ==
    /\ TitleOnly
    /\ OldItem.name = <<<<"1", "A">>, <<"a", "-", "b">>>>
    /\ NewItem.name = <<<<"1", "A">>, <<"c">>>>
    /\ NewItem.dir = <<StackRoot, <<"u", "i">>>>
    /\ last.renamed

\* The directory root a status belongs to.
RootOf(status) ==
    IF status = "closed" THEN ArchiveRoot
    ELSE IF status = "template" THEN TemplateRoot
    ELSE StackRoot

\* C5: after every successful command each item's status agrees with where
\* its file is: open in the stack, closed in the archive, template in the
\* templates directory.
C5_StatusAgreesWithLocation ==
    ~HalfDone => \A f \in files : f.dir[1] = RootOf(f.fm.status)

C5_Witness ==
    /\ last.op = "reopen"
    /\ last.res = "ok"
    /\ \E f \in files : f.fm.status = "template" /\ f.dir[1] = TemplateRoot
    /\ NewItem.fm.status = "open"
    /\ NewItem.dir[1] = StackRoot

\* C6: a close moves the item to the archive under the same category and
\* filename with status closed; reopening it puts the very same item back:
\* same directory, same filename, same metadata, status open, and no copy of
\* it stays in the archive.
C6_CloseReopenRoundTrip ==
    /\ (last.op = "close" /\ last.res = "ok") =>
           /\ NewItem.dir = <<ArchiveRoot>> \o Tail(OldItem.dir)
           /\ derive_category(NewItem.dir) = derive_category(OldItem.dir)
           /\ NewItem.name = OldItem.name
           /\ NewItem.fm = [OldItem.fm EXCEPT !.status = "closed"]
           /\ Path(OldItem) \notin Paths(files)
    /\ (/\ last.op = "reopen"
        /\ last.res = "ok"
        /\ closedFrom # {}
        /\ last.prePath = Some(Get(closedFrom).to)) =>
           /\ NewItem = Get(closedFrom).file
           /\ NewItem.fm.status = "open"
           /\ NewItem.dir[1] = StackRoot
           /\ Get(closedFrom).to \notin Paths(files)
           /\ Cardinality({f \in files : /\ f.name = NewItem.name
                                        /\ f.dir[1] \in {StackRoot, ArchiveRoot}}) = 1

C6_Witness ==
    /\ last.op = "reopen"
    /\ last.res = "ok"
    /\ closedFrom # {}
    /\ last.prePath = Some(Get(closedFrom).to)
    /\ Get(closedFrom).to[1] = <<ArchiveRoot, <<"u", "i">>>>
    /\ NewItem.dir = <<StackRoot, <<"u", "i">>>>

CreateOp == last.op \in {"new", "from_template"}

\* C7: creation never overwrites a file.  Every destination tried before the
\* last one was taken; a success adds exactly one file at a path that was
\* free; after the bounded number of attempts, all taken, creation fails with
\* AlreadyExists and the store is as it was.
C7_CreateNeverOverwrites ==
    CreateOp =>
        /\ last.attempts <= CREATE_MAX_ATTEMPTS
        /\ Len(last.tried) = last.attempts
        /\ \A k \in 1..(Len(last.tried) - 1) : last.tried[k] \in Paths(last.pre)
        /\ last.res = "ok" =>
               /\ last.path = Some(last.tried[Len(last.tried)])
               /\ Get(last.path) \notin Paths(last.pre)
               /\ files = last.pre \cup {NewItem}
               /\ Cardinality(files) = Cardinality(last.pre) + 1
        /\ last.res = "AlreadyExists" =>
               /\ last.attempts = CREATE_MAX_ATTEMPTS
               /\ \A k \in 1..Len(last.tried) : last.tried[k] \in Paths(last.pre)
               /\ files = last.pre
        /\ last.res \notin {"ok", "AlreadyExists"} => files = last.pre

C7_Witness ==
    /\ last.op = "new"
    /\ last.res = "ok"
    /\ last.attempts = 2
    /\ last.tried[1] \in Paths(last.pre)
    /\ last.tried[1][2][1] # last.tried[2][2][1]

RemoveCategoryOnly ==
    /\ CategoryOnly
    /\ last.args.remove_category
    /\ derive_category(OldItem.dir) # {}

\* C8: removing the category of an item that has one moves its file to the
\* root of its area (the stack root for a stack item) under the same
\* filename, and the category derived from the new path is none.
C8_RemoveCategoryMovesToRoot ==
    RemoveCategoryOnly =>
        /\ Get(last.path) \in Paths(files)
        /\ NewItem.dir = <<OldItem.dir[1]>>
        /\ NewItem.name = OldItem.name
        /\ derive_category(NewItem.dir) = {}
        /\ Path(OldItem) \notin Paths(files)
        /\ \A f \in files : f.dir = OldItem.dir => f.name # OldItem.name

C8_Witness ==
    /\ RemoveCategoryOnly
    /\ OldItem.dir = <<StackRoot, <<"u", "i">>>>
    /\ NewItem.dir = <<StackRoot>>
    /\ last.moved

\* The category a successful command asked for, after normalisation.
AskedCategory == Some(normalize_identifier(Get(last.args.category)))

\* C9: an item created or moved with category c lives in <root>/c/ and the
\* category derived from its path is c; one created without a category lives
\* directly in the root and derives none.
C9_DeriveInvertsTargetDir ==
    /\ (CreateOp /\ last.res = "ok" /\ last.args.category # {}) =>
           /\ Len(NewItem.dir) = 2
           /\ NewItem.dir[2] = Get(AskedCategory)
           /\ derive_category(NewItem.dir) = AskedCategory
    /\ (last.op = "new" /\ last.res = "ok") =>
           /\ NewItem.dir[1] = NewRoot(last.args.as_template)
           /\ NewItem.dir = resolve_target_dir(NewItem.dir[1],
                                               derive_category(NewItem.dir))
           /\ last.args.category = {} =>
                  /\ NewItem.dir = <<NewItem.dir[1]>>
                  /\ derive_category(NewItem.dir) = {}
    /\ (UpdateOk /\ last.args.category # {} /\ ~last.args.remove_category) =>
           /\ NewItem.dir = <<OldItem.dir[1], Get(AskedCategory)>>
           /\ derive_category(NewItem.dir) = AskedCategory

C9_Witness ==
    /\ UpdateOk
    /\ last.args.category = Some(<<"U", "i">>)
    /\ ~last.args.remove_category
    /\ last.moved
    /\ OldItem.dir = <<StackRoot>>
    /\ derive_category(NewItem.dir) = Some(<<"u", "i">>)
    /\ \E f \in files : f # NewItem /\ f.dir = <<TemplateRoot, <<"u", "i">>>>

\* ------------------------------------------------- attach claims, continued
\* The original positions of the removed entries that are files.
RemovedFiles ==
    {attachLast.pre[i] : i \in {j \in Range(attachLast.processed) :
                                    ~is_url(attachLast.pre[j])}}

\* C11: a URL source is appended as the literal string and no file is made
\* for it: the files new in the attachment directory are exactly the copies
\* of local sources.  Removing entries tries a file deletion exactly for the
\* removed entries that are not URLs.
C11_UrlHasNoFilesystemFootprint ==
    /\ attachLast.op = "add" =>
          /\ \A k \in 1..Len(attachLast.results) :
                attachLast.sources[k] \in UrlStrings =>
                   /\ attachLast.results[k] = "UrlAdded"
                   /\ attachLast.mem[Len(attachLast.pre) + Cardinality(
                          AddedPositions(attachLast.results) \cap 1..k)]
                        = <<attachLast.sources[k], 0>>
          /\ attachLast.preDir \subseteq attDir
          /\ \A f \in attDir \ attachLast.preDir : ~is_url(f)
          /\ Cardinality(attDir \ attachLast.preDir) =
                Cardinality({k \in 1..Len(attachLast.results) :
                                attachLast.results[k] = "FileCopied"})
    /\ attachLast.op = "remove" =>
          /\ attachLast.deleteTried = RemovedFiles
          /\ attachLast.preDir \ attDir \subseteq RemovedFiles
          /\ attDir \subseteq attachLast.preDir

\* A URL entry and a file entry removed by one command: one deletion tried.
C11_Witness ==
    /\ attachLast.op = "remove"
    /\ attachLast.res = "ok"
    /\ Len(attachLast.processed) = 2
    /\ is_url(attachLast.pre[attachLast.processed[1]])
    /\ ~is_url(attachLast.pre[attachLast.processed[2]])
    /\ attachLast.deleteTried = {attachLast.pre[attachLast.processed[2]]}
    /\ Cardinality(attachLast.preDir \ attDir) = 1

DeleteFailed == attachLast.deleteTried \cap attachLast.undeletable

\* C12: when a removed attachment's file cannot be deleted, attach remove
\* only warns: the entry is still removed from the list, every other
\* requested index is still processed, the item is saved and the command
\* succeeds; the file that could not be deleted stays on disk.
C12_DeleteFailureIsWarning ==
    (attachLast.op = "remove" /\ DeleteFailed # {} /\ ~attachLast.saveFails)
    => /\ attachLast.warnings = Cardinality(DeleteFailed)
       /\ Range(attachLast.processed) = Range(attachLast.indices)
       /\ attachLast.count = Cardinality(Range(attachLast.indices))
       /\ attachLast.mem = KeepPositions(attachLast.pre, Range(attachLast.indices))
       /\ attachLast.saved
       /\ attachLast.res = "ok"
       /\ attachments = attachLast.mem
       /\ DeleteFailed \subseteq attDir
       /\ attachLast.deleteTried \ DeleteFailed \subseteq attachLast.preDir \ attDir

\* The file of the highest requested index cannot be deleted; the lower
\* index is processed after it.
C12_Witness ==
    /\ attachLast.op = "remove"
    /\ attachLast.processed = <<2, 1>>
    /\ attachLast.pre[2] \in attachLast.undeletable
    /\ ~is_url(attachLast.pre[1])
    /\ attachLast.warnings = 1
    /\ attachLast.res = "ok"
    /\ attachLast.pre[2] \in attDir
    /\ attachLast.pre[1] \notin attDir
    /\ Len(attachments) = Len(attachLast.pre) - 2

\* C13: attach add on a Closed item fails with an invalid-state error
\* before any source is processed: the attachments list, the item file and
\* the attachment directory are as they were.
C13_AddToClosedFails ==
    (attachLast.op = "add" /\ attachLast.sources # <<>> /\ itemStatus = "closed")
    => /\ attachLast.res = "err"
       /\ attachLast.why = "InvalidState"
       /\ attachLast.results = <<>>
       /\ attachLast.mem = attachLast.pre
       /\ ~attachLast.saved
       /\ attachments = attachLast.pre
       /\ attDir = attachLast.preDir

\* A closed item that has a file attached; a file and a URL are offered.
C13_Witness ==
    /\ attachLast.op = "add"
    /\ itemStatus = "closed"
    /\ attachLast.sources = <<"a.txt", "https://example.com/x">>
    /\ Len(attachments) = 1
    /\ attDir # {}
    /\ attachLast.res = "err"

\* ---------------------------------------------------------- reference claims
\* The --id reference of the last update, close or reopen, and the items of
\* the stack and the archive whose id starts with it.
LastRef == IF last.op = "update" THEN last.args.ref ELSE last.args
ById ==
    /\ last.op \in {"update", "close", "reopen"}
    /\ last.res # "ValidationError"
    /\ LastRef.kind = "id"
IdMatches ==
    {f \in last.pre : /\ f.dir[1] \in {StackRoot, ArchiveRoot}
                      /\ IsPrefix(LastRef.id, f.name[1])}

\* C14: a partial id that matches exactly one item resolves to that item; one
\* that matches several fails with an ambiguity error, one that matches none
\* fails with not-found, and after either failure no item is modified.
C14_PartialIdResolution ==
    ById =>
       /\ Cardinality(IdMatches) = 1 =>
             /\ last.res \notin {"NotFound", "AmbiguousReference"}
             /\ last.prePath # {}
             /\ OldItem \in IdMatches
       /\ Cardinality(IdMatches) > 1 =>
             /\ last.res = "AmbiguousReference"
             /\ files = last.pre
             /\ ~last.saved /\ ~last.renamed /\ ~last.moved
       /\ IdMatches = {} =>
             /\ last.res = "NotFound"
             /\ files = last.pre
             /\ ~last.saved /\ ~last.renamed /\ ~last.moved

\* The prefix "1" with the items 1A and 1B in the stack: ambiguous.
C14_Witness ==
    /\ last.op = "update"
    /\ last.args.ref = [kind |-> "id", id |-> <<"1">>]
    /\ last.args.title # {}
    /\ {f.name[1] : f \in last.pre} = {<<"1", "A">>, <<"1", "B">>}
    /\ \A f \in last.pre : f.dir[1] = StackRoot
    /\ last.res = "AmbiguousReference"
    /\ files = last.pre

\* --------------------------------------------------------- validation claims
BlankIn(labels) == \E k \in 1..Len(labels) : is_empty_trimmed(labels[k])

\* Some argument of the last new or update is empty after trimming.
HasBlankArg ==
    /\ last.op \in {"new", "from_template", "update"}
    /\ \/ last.args.title # {} /\ is_empty_trimmed(Get(last.args.title))
       \/ BlankIn(last.args.labels)
       \/ last.op = "update" /\ BlankIn(last.args.remove_labels)
       \/ last.args.category # {} /\ is_empty_trimmed(Get(last.args.category))

\* C15: new and update reject a title, a label or a category that is empty
\* after trimming with a validation error before any item is created, loaded
\* or modified.
C15_BlankArgumentRejected ==
    HasBlankArg =>
        /\ last.res # "ok"
        /\ last.op # "from_template" =>
               (last.res = "ValidationError" /\ last.prePath = {})
        /\ files = last.pre
        /\ ~last.saved /\ ~last.renamed /\ ~last.moved

\* -------------------------------------------------------- enumeration claims
\* The items of the stack and the archive whose files parse.
Parseable == {f \in files : f.dir[1] \in {StackRoot, ArchiveRoot} /\ Path(f) \notin corrupt}
InListedRoot(f, closed) == f.dir[1] = (IF closed THEN ArchiveRoot ELSE StackRoot)

NoRepeat(labels) ==
    \A i, j \in 1..Len(labels) : labels[i] = labels[j] => i = j
Normalized(labels) ==
    \A k \in 1..Len(labels) : normalize_identifier(labels[k]) = labels[k]

\* C17: the labels of every newly created item are in normalized form and no
\* label occurs twice, also when the input repeats a label or spells it in
\* two ways.
C17_NewLabelsAreASet ==
    (CreateOp /\ last.res = "ok") =>
        /\ Normalized(NewItem.fm.labels)
        /\ NoRepeat(NewItem.fm.labels)

NormalizedSet(labels) == {normalize_identifier(labels[k]) : k \in 1..Len(labels)}
Count(labels, n) == Cardinality({k \in 1..Len(labels) : labels[k] = n})
Without(labels, S) == SelectSeq(labels, LAMBDA l : l \notin S)

\* C18: update normalizes the labels it adds and removes as creation does:
\* a label whose normalized form is on the item is not added again, a label
\* to remove is removed under its normalized form whatever its spelling, a
\* new label is appended once, and the labels the command does not name
\* stay as they were, in their order.
C18_UpdateNormalizesLabels ==
    UpdateOk =>
        LET old == OldItem.fm.labels
            new == NewItem.fm.labels
            A == NormalizedSet(last.args.labels)
            R == NormalizedSet(last.args.remove_labels)
        IN  /\ Range(new) = (Range(old) \cup A) \ R
            /\ Without(new, A \cup R) = Without(old, A \cup R)
            /\ \A n \in A \ R :
                  Count(new, n) = IF n \in Range(old) THEN Count(old, n) ELSE 1
            /\ (A \subseteq Range(old) /\ R = {}) => new = old
            /\ NewItem.fm = [OldItem.fm EXCEPT !.labels = new]

\* "A b" is added to an item that has "a-b" and "c": nothing is added.
C18_Witness ==
    /\ UpdateOk
    /\ last.args.labels = <<TitleAB>>
    /\ last.args.remove_labels = <<>>
    /\ OldItem.fm.labels = <<LabelC, LabelAb>>
    /\ NewItem.fm.labels = <<LabelC, LabelAb>>
    /\ last.saved

\* ----------------------------------------------------------- template claims
Spawned == last.op = "from_template" /\ last.res = "ok"
Templates(fs) == {f \in fs : f.dir[1] = TemplateRoot}

\* C19: new --from-template creates one item under the stack root with
\* status Open, the generated id, the given title and a copy of the
\* template's body, and leaves the template file as it was: the templates
\* are unchanged and the stack has one item more.
C19_TemplateIsOnlyRead ==
    Spawned =>
        /\ NewItem.dir[1] = StackRoot
        /\ NewItem.fm.status = "open"
        /\ NewItem.fm.title = Get(last.args.title)
        /\ NewItem.fm.id = last.tried[last.attempts][2][1]
        /\ NewItem.fm.id \in {last.args.id} \cup Range(last.args.regenerated)
        /\ NewItem.fm.body = OldItem.fm.body
        /\ OldItem \in files
        /\ OldItem.fm.status = "template"
        /\ Templates(files) = Templates(last.pre)
        /\ NewItem \notin last.pre
        /\ walk_items(files) = walk_items(last.pre) \cup {NewItem}
        /\ Cardinality(walk_items(files)) = Cardinality(walk_items(last.pre)) + 1
        /\ files = last.pre \cup {NewItem}

\* An item spawned from a template whose body was written in the editor.
C19_Witness ==
    /\ Spawned
    /\ OldItem.fm.body = <<"b">>
    /\ NewItem.fm.body = <<"b">>
    /\ NewItem.fm.title = TitleAB
    /\ Cardinality(Templates(files)) = 1
    /\ Cardinality(walk_items(files)) = 1

\* C20: an item created from a template is placed in the category given on
\* the command line, normalized, when one is given, and otherwise in the
\* category of the template's location (none for a template directly under
\* the template root).
C20_SpawnCategory ==
    Spawned =>
        LET expected == IF last.args.category # {}
                        THEN Some(normalize_identifier(Get(last.args.category)))
                        ELSE derive_category(OldItem.dir)
        IN  /\ derive_category(NewItem.dir) = expected
            /\ NewItem.dir = IF expected = {} THEN <<StackRoot>>
                             ELSE <<StackRoot, Get(expected)>>

\* No --category, and the template lives in templates/ui.
C20_Witness ==
    /\ Spawned
    /\ last.args.category = {}
    /\ OldItem.dir = <<TemplateRoot, <<"u", "i">>>>
    /\ NewItem.dir = <<StackRoot, <<"u", "i">>>>

\* ------------------------------------------------------------ listing roots
\* C21: the default listing (closed flag not set) contains only items stored
\* under the stack root, never a template and never an archived item; the
\* listing with the closed flag set contains only items stored under the
\* archive root.  Every listed item is a file of the store.
C21_ListingStaysInItsRoot ==
    last.op = "list" =>
        \A item \in last.out :
            /\ item \in files
            /\ item.dir[1] # TemplateRoot
            /\ item.fm.status # "template"
            /\ ~last.args.closed => item.dir[1] = StackRoot
            /\ last.args.closed => item.dir[1] = ArchiveRoot

\* A default listing that shows an item while the store also holds a template.
C21_Witness ==
    /\ last.op = "list"
    /\ ~last.args.closed
    /\ last.out # {}
    /\ \E f \in files : f.dir[1] = TemplateRoot /\ Parses(f)

\* =============================================================== terminal
\* TerminalGuard::new, first step: enable_raw_mode()?.  On an error new
\* returns it and raw mode is not enabled.
EnableRawMode ==
    /\ terminal.pc = "idle"
    /\ terminal.runs < MaxRuns
    /\ \E ok \in BOOLEAN :
          terminal' = IF ok THEN [terminal EXCEPT !.pc = "screen", !.raw = TRUE]
                      ELSE [terminal EXCEPT !.pc = "returned", !.how = "new_failed"]
    /\ UNCHANGED <<attachVars, storeVars, call, input, select, screen>>

\* Second step: execute!(stdout, EnterAlternateScreen, EnableBracketedPaste)?.
\* On an error new returns it; no TerminalGuard exists, nothing is dropped.
\* The commands written before the error may have reached the terminal.
EnterAlternateScreen ==
    /\ terminal.pc = "screen"
    /\ \E ok \in BOOLEAN, entered \in BOOLEAN :
          terminal' = IF ok
                      THEN [terminal EXCEPT !.pc = "backend", !.alt = TRUE,
                                            !.paste = TRUE]
                      ELSE [terminal EXCEPT !.pc = "returned", !.how = "new_failed",
                                            !.alt = @ \/ entered]
    /\ UNCHANGED <<attachVars, storeVars, call, input, select, screen>>

\* Third step: Terminal::new(backend)?, then Ok(Self { terminal }).
TerminalNew ==
    /\ terminal.pc = "backend"
    /\ \E ok \in BOOLEAN :
          terminal' = IF ok THEN [terminal EXCEPT !.pc = "running", !.guard = TRUE]
                      ELSE [terminal EXCEPT !.pc = "returned", !.how = "new_failed"]
    /\ UNCHANGED <<attachVars, storeVars, call, input, select, screen>>

\* impl Drop for TerminalGuard: raw mode disabled, bracketed paste disabled,
\* alternate screen left.
drop(t) == [t EXCEPT !.raw = FALSE, !.paste = FALSE, !.alt = FALSE, !.guard = FALSE]

\* tui/event.rs TuiEvent.
TuiEvents == {"key", "resize", "tick"}

\* The event loop handles an event and continues.
LoopTick ==
    /\ terminal.pc = "running"
    /\ terminal.ticks < MaxTicks
    /\ \E event \in TuiEvents :
          terminal' = [terminal EXCEPT !.ticks = @ + 1, !.event = event]
    /\ UNCHANGED <<attachVars, storeVars, call, input, select, screen>>

\* The ways the event loop ends while the guard is in scope.
LoopEnds == {"done", "cancelled", "error", "panic"}

\* The loop ends: the guard goes out of scope (by return, by `?` or by
\* unwinding) and is dropped.
LoopEnd ==
    /\ terminal.pc = "running"
    /\ \E how \in LoopEnds :
          terminal' = [drop(terminal) EXCEPT !.pc = "returned", !.how = how]
    /\ UNCHANGED <<attachVars, storeVars, call, input, select, screen>>

\* The process continues after the TUI returned; it may start another one.
Continue ==
    /\ terminal.pc = "returned"
    /\ terminal' = [terminal EXCEPT !.pc = "idle", !.how = "none", !.ticks = 0,
                                    !.event = "none",
                                    !.runs = @ + 1]
    /\ UNCHANGED <<attachVars, storeVars, call, input, select, screen>>

NextTerminal ==
    \/ EnableRawMode \/ EnterAlternateScreen \/ TerminalNew
    \/ LoopTick \/ LoopEnd \/ Continue

SpecTerminal == Init /\ [][NextTerminal]_vars

\* C22: whenever TerminalGuard::new has enabled raw mode, raw mode is
\* disabled and the alternate screen left when the TUI has returned, however
\* it ended: normally, by cancel, by an error or panic in the event loop, or
\* by a failure of a later step of TerminalGuard::new.
C22_TerminalReleased ==
    terminal.pc = "returned" => ~terminal.raw /\ ~terminal.alt

\* ======================================================= interactive mode
\* InteractiveArgs::resolve: explicit --interactive, then explicit
\* --no-interactive, then the config default.
MutResolveNoInteractiveFirst(args, config_default) ==
    IF args.no_interactive THEN FALSE
    ELSE IF args.interactive THEN TRUE
    ELSE config_default

InteractiveArgs_resolve(args, config_default) ==
    IF args.interactive THEN TRUE
    ELSE IF args.no_interactive THEN FALSE
    ELSE config_default

\* InteractiveArgs::should_run: the resolution and a terminal on stdout.
should_run(args, config_interactive, is_terminal) ==
    InteractiveArgs_resolve(args, config_interactive) /\ is_terminal

\* commands/list.rs execute, after the items are collected: nothing found,
\* the table alone, or the table and the interactive selection.
list_mode(filter, config_interactive, is_terminal, empty) ==
    IF empty THEN "nothing"
    ELSE LET interactive == IF filter.interactive THEN TRUE
                            ELSE IF filter.no_interactive THEN FALSE
                            ELSE config_interactive
         IN  IF ~interactive THEN "table"
             ELSE IF ~is_terminal THEN "table"
             ELSE "select"

\* commands/labels.rs execute, after the labels are counted.
labels_mode(args, config_interactive, is_terminal, empty) ==
    IF empty THEN "nothing"
    ELSE LET interactive == IF args.interactive THEN TRUE
                            ELSE IF args.no_interactive THEN FALSE
                            ELSE config_interactive
         IN  IF ~interactive \/ ~is_terminal THEN "table" ELSE "select"

\* commands/categories.rs execute, after the categories are counted.
categories_mode(args, config_interactive, is_terminal, empty) ==
    IF empty THEN "nothing"
    ELSE LET interactive == IF args.interactive THEN TRUE
                            ELSE IF args.no_interactive THEN FALSE
                            ELSE config_interactive
         IN  IF ~interactive \/ ~is_terminal THEN "table" ELSE "select"

\* The flags of a command line, the config default, whether stdout is a
\* terminal and whether the command found nothing to show.
InteractiveInputs ==
    [fn : {"none"}, interactive : BOOLEAN, no_interactive : BOOLEAN,
     config : BOOLEAN, is_terminal : BOOLEAN, empty : BOOLEAN]

InitInteractive ==
    /\ InitFiles
    /\ InitTerminal
    /\ InitWidgets
    /\ call \in InteractiveInputs

Called(fn, result) ==
    /\ call.fn = "none"
    /\ call' = [fn |-> fn, interactive |-> call.interactive,
                no_interactive |-> call.no_interactive, config |-> call.config,
                is_terminal |-> call.is_terminal, empty |-> call.empty,
                result |-> result]
    /\ UNCHANGED <<attachVars, storeVars, terminal, input, select, screen>>

CallResolve == Called("resolve", InteractiveArgs_resolve(call, call.config))
CallShouldRun == Called("should_run", should_run(call, call.config, call.is_terminal))
CallList ==
    Called("list", list_mode(call, call.config, call.is_terminal, call.empty))
CallLabels ==
    Called("labels", labels_mode(call, call.config, call.is_terminal, call.empty))
CallCategories ==
    Called("categories",
           categories_mode(call, call.config, call.is_terminal, call.empty))

NextInteractive ==
    CallResolve \/ CallShouldRun \/ CallList \/ CallLabels \/ CallCategories

SpecInteractive == InitInteractive /\ [][NextInteractive]_vars

\* The priority of the claim, written as a table.
Priority(c) ==
    CASE c.interactive -> TRUE
      [] ~c.interactive /\ c.no_interactive -> FALSE
      [] OTHER -> c.config

\* C23: interactive mode is true when --interactive is set (also together
\* with --no-interactive), false when only --no-interactive is set, and the
\* config default when neither is set; list, labels and categories decide by
\* the same function: they select interactively exactly when they have
\* something to show, the mode resolves to true and stdout is a terminal.
C23_InteractivePriority ==
    /\ call.fn = "resolve" => call.result = Priority(call)
    /\ call.fn = "should_run" => call.result = (Priority(call) /\ call.is_terminal)
    /\ call.fn \in {"list", "labels", "categories"} =>
          /\ call.result = "nothing" <=> call.empty
          /\ call.result = "select" <=>
                (~call.empty /\ Priority(call) /\ call.is_terminal)
          /\ call.result \in {"nothing", "table", "select"}

\* Both flags set and the config default false: resolved to true.
C23_Witness ==
    /\ call.fn = "resolve"
    /\ call.interactive /\ call.no_interactive /\ ~call.config
    /\ call.result = TRUE

\* ========================================================== matches_query
\* item/search.rs matches_query: the query is lowercased here.
MutMatchesBodyAlways(item, query, full_text) ==
    LET query_lower == to_lowercase(query)
    IN  \/ contains(to_lowercase(item.fm.title), query_lower)
        \/ contains(to_lowercase(item.fm.id), query_lower)
        \/ contains(to_lowercase(item.fm.body), query_lower)

item_matches_query(item, query, full_text) ==
    LET query_lower == to_lowercase(query)
    IN  IF contains(to_lowercase(item.fm.title), query_lower) THEN TRUE
        ELSE IF contains(to_lowercase(item.fm.id), query_lower) THEN TRUE
        ELSE IF full_text /\ contains(to_lowercase(item.fm.body), query_lower)
        THEN TRUE
        ELSE FALSE

QueryBodies == {<<>>, <<"u", "C">>, <<"a">>}
Queries == {<<>>, <<"A">>, <<"b">>, <<"c">>, <<"1">>, <<"U">>, <<"b", " ">>}

MatchInputs ==
    [fn : {"none"}, title : TitleInputs, id : Ids, body : QueryBodies,
     query : Queries, full_text : BOOLEAN]

InitMatch ==
    /\ InitFiles
    /\ InitTerminal
    /\ InitWidgets
    /\ call \in MatchInputs

\* The item of a call.
CallItem(c) ==
    [fm |-> [id |-> c.id, title |-> c.title, status |-> "open", labels |-> <<>>,
             body |-> c.body, author |-> author]]

Matched(fn, result) ==
    /\ call.fn = "none"
    /\ call' = [fn |-> fn, title |-> call.title, id |-> call.id,
                body |-> call.body, query |-> call.query,
                full_text |-> call.full_text, result |-> result]
    /\ UNCHANGED <<attachVars, storeVars, terminal, input, select, screen>>

\* item::search::matches_query(item, query, full_text)
CallItemMatches ==
    Matched("item_matches",
            item_matches_query(CallItem(call), call.query, call.full_text))

\* commands/search.rs: execute lowercases the query and calls its own
\* matches_query with it.
CallSearchMatches ==
    Matched("search_matches",
            matches_query(CallItem(call), to_lowercase(call.query), call.full_text))

NextMatch == CallItemMatches \/ CallSearchMatches

SpecMatch == InitMatch /\ [][NextMatch]_vars

\* q occurs in s as a run of consecutive characters.
Substring(q, s) ==
    \E a \in 0..Len(s), b \in 0..Len(s) : a <= b /\ SubSeq(s, a + 1, b) = q

InTitleOrId(c) ==
    \/ Substring(to_lowercase(c.query), to_lowercase(c.title))
    \/ Substring(to_lowercase(c.query), to_lowercase(c.id))

InBody(c) == Substring(to_lowercase(c.query), to_lowercase(c.body))

\* C24: matches_query is true exactly when the lowercased query is a
\* substring of the lowercased title or of the lowercased id, or full_text
\* is set and it is a substring of the lowercased body.  Hence a query found
\* only in the body matches only with full_text, and a match without
\* full_text is a match with full_text too.
C24_MatchesQuery ==
    call.fn \in {"item_matches", "search_matches"} =>
        /\ call.result = (InTitleOrId(call) \/ (call.full_text /\ InBody(call)))
        /\ (InBody(call) /\ ~InTitleOrId(call)) => call.result = call.full_text
        /\ (call.result /\ ~call.full_text) =>
              item_matches_query(CallItem(call), call.query, TRUE)

\* The query U is found, by its lowercase form, only in the body uC: no
\* match without full_text.
C24_Witness ==
    /\ call.fn = "item_matches"
    /\ call.query = <<"U">> /\ call.body = <<"u", "C">>
    /\ ~call.full_text
    /\ ~call.result

\* ========================================================= update, again
\* The name of a file is the one derived from the id and the title stored in
\* its metadata.
NameAgreesWithTitle(f) == f.name = Filename(f.fm.id, f.fm.title)

\* C25: after every update that returns, with success or with an error (in
\* particular when the rename fails because the destination filename
\* exists), the filename of the item equals the filename derived from its id
\* and the title stored in its metadata.
C25_FilenameAgreesAfterUpdate ==
    (last.op = "update" /\ last.path # {}
        /\ \A f \in last.pre : NameAgreesWithTitle(f)) =>
        NameAgreesWithTitle(FileAt(files, Get(last.path)))

\* ===================================================== attachments, again
\* The files the last attach add copied into the attachment directory.
CopiedFiles == attDir \ attachLast.preDir

\* C26: attaching never orphans a copied file: after
\* process_and_save_attachments returns, with success or with a fatal error
\* on a later source or on the final save, every file the call copied into
\* the attachment directory is listed in the attachments of the item as
\* persisted on disk.
C26_NoOrphanedCopy ==
    attachLast.op = "add" => CopiedFiles \subseteq FileEntries(attachments)

\* ==================================================== update, no changes
\* Updates of every shape on a store of items with and without a label and
\* a category.
CategoryUiLower == <<"u", "i">>

NewShaped ==
    /\ last.op = "none"
    /\ \E shape \in Shapes, id \in Ids :
        /\ execute_new([title |-> Some(TitleC), labels |-> shape.labels,
                        category |-> shape.category, as_template |-> FALSE,
                        id |-> id, regenerated |-> NoRetry(id)])
        /\ Cardinality(files') <= MaxFiles
        /\ UNCHANGED <<closedFrom, corrupt, attachVars, tuiVars>>

UpdateAny ==
    /\ last.op = "none"
    /\ \E ref \in IdRefs, title \in OptionOf(TitleInputs),
          labels \in {<<>>, <<LabelC>>},
          remove_labels \in {<<>>, <<LabelC>>, <<TitleAB, LabelC>>},
          category \in OptionOf({CategoryUi, CategoryUiLower}),
          remove_category \in BOOLEAN :
        /\ execute_update([ref |-> ref, title |-> title, labels |-> labels,
                           remove_labels |-> remove_labels,
                           category |-> category,
                           remove_category |-> remove_category])
        /\ UNCHANGED <<closedFrom, corrupt, attachVars, tuiVars>>

NextNoChange == NewShaped \/ UpdateAny \/ Exit

SpecNoChange == Init /\ [][NextNoChange]_vars

\* The last command was an update of an item that asked for nothing new: the
\* title is the current one or not given, no label is to be added, every
\* label to remove is absent, and the category is the current one or not
\* given (or --remove-category on an item without a category).
AsksNoChange ==
    /\ last.op = "update"
    /\ last.prePath # {}
    /\ LET item == FileAt(last.pre, Get(last.prePath))
           args == last.args
       IN  /\ args.title = {} \/ Get(args.title) = item.fm.title
           /\ args.labels = <<>>
           /\ \A k \in 1..Len(args.remove_labels) :
                 normalize_identifier(args.remove_labels[k])
                     \notin Range(item.fm.labels)
           /\ IF args.remove_category THEN derive_category(item.dir) = {}
              ELSE \/ args.category = {}
                   \/ Some(normalize_identifier(Get(args.category)))
                          = derive_category(item.dir)

\* C27: an update that changes nothing performs no filesystem write: it
\* reports that there are no changes and neither saves, renames nor moves
\* the item.
C27_NoChangeNoWrite ==
    AsksNoChange =>
        /\ last.res = "ok"
        /\ ~last.saved /\ ~last.renamed /\ ~last.moved
        /\ last.path = last.prePath
        /\ files = last.pre

\* The current title and the current category are given again, and a label
\* the item does not carry is to be removed.
C27_Witness ==
    /\ AsksNoChange
    /\ last.args.title = Some(TitleC)
    /\ last.args.category = Some(CategoryUiLower)
    /\ ~last.args.remove_category
    /\ last.args.remove_labels = <<TitleAB, LabelC>>
    /\ ~last.saved

\* ============================================================== TextInput
\* A String is a sequence of characters, each encoded in one or more bytes;
\* positions in a String are byte offsets.
MaxChars == 3
\* The character e with an acute accent: two bytes in UTF-8.
EAcute == "e-acute"
InputChars == {"a", " ", EAcute}
len_utf8(c) == IF c = EAcute THEN 2 ELSE 1

RECURSIVE ByteLen(_)
ByteLen(s) == IF s = <<>> THEN 0 ELSE len_utf8(Head(s)) + ByteLen(Tail(s))

\* The byte offset at which the character after the first k ones starts.
Offset(s, k) == ByteLen(SubSeq(s, 1, k))
CharBoundaries(s) == {Offset(s, k) : k \in 0..Len(s)}
CharsBefore(s, idx) == CHOOSE k \in 0..Len(s) : Offset(s, k) = idx

\* String::insert(idx, c): panics unless idx is on a character boundary.
String_insert(s, idx, c) ==
    IF idx \notin CharBoundaries(s) THEN [panic |-> TRUE, s |-> s]
    ELSE LET k == CharsBefore(s, idx)
         IN  [panic |-> FALSE,
              s |-> SubSeq(s, 1, k) \o <<c>> \o SubSeq(s, k + 1, Len(s))]

\* String::remove(idx): panics unless a character starts at idx.
String_remove(s, idx) ==
    IF idx \notin CharBoundaries(s) \/ idx >= ByteLen(s)
    THEN [panic |-> TRUE, s |-> s]
    ELSE LET k == CharsBefore(s, idx)
         IN  [panic |-> FALSE, s |-> SubSeq(s, 1, k) \o SubSeq(s, k + 2, Len(s))]

\* content.chars().nth(n): the character of that index, if any.
chars_nth(s, n) == IF n >= 0 /\ n < Len(s) THEN Some(s[n + 1]) ELSE {}

\* TextInput::new(label).with_initial(value)
with_initial(value) ==
    [kind |-> "text", content |-> value, cursor |-> ByteLen(value),
     panicked |-> FALSE, key |-> [code |-> "none"], before |-> value]

\* One loop of Ctrl+W: while the character at index cursor - 1 is a space
\* (first loop) or is not one (second loop), step back and remove.
RECURSIVE DeleteBackWhile(_, _)
DeleteBackWhile(w, spaces) ==
    IF w.panicked \/ w.cursor = 0 THEN w
    ELSE LET ch == chars_nth(w.content, w.cursor - 1)
             goes == IF spaces THEN ch = Some(" ") ELSE ch # Some(" ")
             r == String_remove(w.content, w.cursor - 1)
         IN  IF ~goes THEN w
             ELSE IF r.panic THEN [w EXCEPT !.cursor = @ - 1, !.panicked = TRUE]
             ELSE DeleteBackWhile([w EXCEPT !.cursor = @ - 1, !.content = r.s],
                                  spaces)

\* TextInput::handle_key
TextInput_handle_key(w, key) ==
    CASE key.code = "Char" /\ key.ctrl /\ key.c = "u" ->
            [w EXCEPT !.content = <<>>, !.cursor = 0]
      [] key.code = "Char" /\ key.ctrl /\ key.c = "w" ->
            DeleteBackWhile(DeleteBackWhile(w, TRUE), FALSE)
      [] key.code = "Char" /\ key.ctrl /\ key.c \notin {"u", "w"} -> w
      [] key.code = "Char" /\ ~key.ctrl ->
            LET r == String_insert(w.content, w.cursor, key.c)
            IN  IF r.panic THEN [w EXCEPT !.panicked = TRUE]
                ELSE [w EXCEPT !.content = r.s, !.cursor = @ + 1]
      [] key.code = "Backspace" ->
            IF w.cursor > 0
            THEN LET r == String_remove(w.content, w.cursor - 1)
                 IN  IF r.panic THEN [w EXCEPT !.cursor = @ - 1, !.panicked = TRUE]
                     ELSE [w EXCEPT !.cursor = @ - 1, !.content = r.s]
            ELSE w
      [] key.code = "Delete" ->
            IF w.cursor < ByteLen(w.content)
            THEN LET r == String_remove(w.content, w.cursor)
                 IN  IF r.panic THEN [w EXCEPT !.panicked = TRUE]
                     ELSE [w EXCEPT !.content = r.s]
            ELSE w
      [] key.code = "Left" -> IF w.cursor > 0 THEN [w EXCEPT !.cursor = @ - 1] ELSE w
      [] key.code = "Right" ->
            IF w.cursor < ByteLen(w.content) THEN [w EXCEPT !.cursor = @ + 1] ELSE w
      [] key.code = "Home" -> [w EXCEPT !.cursor = 0]
      [] key.code = "End" -> [w EXCEPT !.cursor = ByteLen(w.content)]
      [] OTHER -> w

\* The key events sent to a TextInput.
CharKeys == {[code |-> "Char", c |-> c, ctrl |-> FALSE] : c \in InputChars}
CtrlKeys == {[code |-> "Char", c |-> c, ctrl |-> TRUE] : c \in {"u", "w", "a"}}
MoveKeys == {[code |-> k] : k \in {"Left", "Right", "Home", "End"}}
EditKeys == {[code |-> k] : k \in {"Backspace", "Delete", "Tab"}}
TextKeys == CharKeys \cup CtrlKeys \cup MoveKeys \cup EditKeys

InitialValues == {<<>>, <<"a">>, <<EAcute>>}

InitTextInput ==
    /\ InitFiles
    /\ InitTerminal
    /\ InitCall
    /\ select = NoWidget
    /\ screen = NoWidget
    /\ input \in {with_initial(value) : value \in InitialValues}

\* A key reaches the widget; a panic ends the widget.
PressKey ==
    /\ input.kind = "text"
    /\ ~input.panicked
    /\ \E key \in TextKeys :
          /\ key \in CharKeys => Len(input.content) < MaxChars
          /\ input' = [TextInput_handle_key(input, key) EXCEPT
                            !.key = key, !.before = input.content]
    /\ UNCHANGED <<attachVars, storeVars, terminal, call, select, screen>>

SpecTextInput == InitTextInput /\ [][PressKey]_vars

\* C28: after any sequence of key events on a TextInput the cursor satisfies
\* 0 <= cursor <= length of content and lies on a character boundary of
\* content, no insert or remove is applied at an invalid position (which
\* panics), and Left, Right, Home and End leave content unchanged.
C28_CursorOnCharBoundary ==
    input.kind = "text" =>
        /\ ~input.panicked
        /\ 0 <= input.cursor /\ input.cursor <= ByteLen(input.content)
        /\ input.cursor \in CharBoundaries(input.content)
        /\ input.key \in MoveKeys => input.content = input.before

\* ================================================== SelectList, MultiSelect
MaxItems == 3

\* The items of a list of n options; a MultiSelect keeps a checkbox with each.
ListItems(n) == [k \in 1..n |-> [label |-> k, checked |-> FALSE]]

\* SelectList::new / MultiSelect::new: the first item is highlighted unless
\* the list is empty.
SelectList_new(n) ==
    [kind |-> "single", items |-> ListItems(n),
     selected |-> IF n # 0 THEN Some(0) ELSE {},
     key |-> "none", before |-> {}, action |-> "None"]

MultiSelect_new(n) ==
    [kind |-> "multi", items |-> ListItems(n),
     selected |-> IF n # 0 THEN Some(0) ELSE {},
     key |-> "none", before |-> {}, action |-> "None"]

\* select_previous: up, from the first item to the last.
select_previous(w) ==
    IF w.items = <<>> THEN w
    ELSE LET i == IF w.selected # {}
                  THEN (IF Get(w.selected) = 0 THEN Len(w.items) - 1
                        ELSE Get(w.selected) - 1)
                  ELSE 0
         IN  [w EXCEPT !.selected = Some(i)]

\* select_next: down, from the last item to the first.
MutSelectNextNoWrap(w) ==
    IF w.items = <<>> THEN w
    ELSE LET i == IF w.selected # {} THEN Get(w.selected) + 1 ELSE 0
         IN  [w EXCEPT !.selected = Some(i)]

select_next(w) ==
    IF w.items = <<>> THEN w
    ELSE LET i == IF w.selected # {}
                  THEN (IF Get(w.selected) >= Len(w.items) - 1 THEN 0
                        ELSE Get(w.selected) + 1)
                  ELSE 0
         IN  [w EXCEPT !.selected = Some(i)]

\* MultiSelect::toggle_current
toggle_current(w) ==
    IF w.selected # {} /\ Get(w.selected) < Len(w.items)
    THEN [w EXCEPT !.items[Get(w.selected) + 1].checked = ~@]
    ELSE w

\* MultiSelect::add_item: a new item is appended checked and highlighted; an
\* item that is in the list already is not added.
add_item(w, label) ==
    IF \E k \in 1..Len(w.items) : w.items[k].label = label THEN w
    ELSE [w EXCEPT !.items = Append(@, [label |-> label, checked |-> TRUE]),
                   !.selected = Some(Len(w.items))]

\* SelectList::handle_key
SelectList_handle_key(w, key) ==
    CASE key \in {"Up", "k"} -> [select_previous(w) EXCEPT !.action = "None"]
      [] key \in {"Down", "j"} -> [select_next(w) EXCEPT !.action = "None"]
      [] key = "Enter" -> [w EXCEPT !.action = "Confirm"]
      [] key = "Esc" -> [w EXCEPT !.action = "Cancel"]
      [] OTHER -> [w EXCEPT !.action = "None"]

\* MultiSelect::handle_key
MultiSelect_handle_key(w, key) ==
    CASE key \in {"Up", "k"} -> [select_previous(w) EXCEPT !.action = "None"]
      [] key \in {"Down", "j"} -> [select_next(w) EXCEPT !.action = "None"]
      [] key = " " -> [toggle_current(w) EXCEPT !.action = "None"]
      [] key = "Enter" -> [w EXCEPT !.action = "Confirm"]
      [] key = "Esc" -> [w EXCEPT !.action = "Cancel"]
      [] OTHER -> [w EXCEPT !.action = "None"]

ListKeys == {"Up", "Down", "k", "j", " ", "Enter", "Esc", "Tab"}

InitSelect ==
    /\ InitFiles
    /\ InitTerminal
    /\ InitCall
    /\ input = NoWidget
    /\ screen = NoWidget
    /\ select \in {SelectList_new(n) : n \in 0..MaxItems}
                  \cup {MultiSelect_new(n) : n \in 0..MaxItems}

\* A key reaches the list.
ListKey ==
    /\ select.kind \in {"single", "multi"}
    /\ \E key \in ListKeys :
          select' = [(IF select.kind = "single"
                      THEN SelectList_handle_key(select, key)
                      ELSE MultiSelect_handle_key(select, key))
                     EXCEPT !.key = key, !.before = select.selected]
    /\ UNCHANGED <<attachVars, storeVars, terminal, call, input, screen>>

\* The wizard adds a label the user typed to a MultiSelect.
AddItem ==
    /\ select.kind = "multi"
    /\ Len(select.items) < MaxItems
    /\ \E label \in 1..MaxItems :
          select' = [add_item(select, label) EXCEPT
                         !.key = "none", !.before = select.selected,
                         !.action = "None"]
    /\ UNCHANGED <<attachVars, storeVars, terminal, call, input, screen>>

NextSelect == ListKey \/ AddItem

SpecSelect == InitSelect /\ [][NextSelect]_vars

\* C29: on a list of n >= 1 items the highlighted index is Some(i) with
\* 0 <= i < n; Down from n - 1 wraps to 0 and Up from 0 wraps to n - 1, so
\* that Down followed by Up, and Up followed by Down, restore the index; on
\* an empty list the selection stays None and navigation changes nothing.
C29_SelectionInRange ==
    select.kind \in {"single", "multi"} =>
        LET n == Len(select.items)
        IN  /\ n >= 1 =>
                  /\ select.selected # {}
                  /\ 0 <= Get(select.selected) /\ Get(select.selected) < n
                  /\ (select.key \in {"Down", "j"} /\ select.before = Some(n - 1))
                        => select.selected = Some(0)
                  /\ (select.key \in {"Up", "k"} /\ select.before = Some(0))
                        => select.selected = Some(n - 1)
                  /\ select_previous(select_next(select)).selected = select.selected
                  /\ select_next(select_previous(select)).selected = select.selected
            /\ n = 0 =>
                  /\ select.selected = {}
                  /\ select_next(select) = select
                  /\ select_previous(select) = select

\* Down on the last of three items of a SelectList.
C29_Witness ==
    /\ select.kind = "single"
    /\ Len(select.items) = 3
    /\ select.key = "Down"
    /\ select.before = Some(2)
    /\ select.selected = Some(0)

\* ========================================================== SelectScreen
\* The events of the screen: key presses with or without Ctrl, a resize, a
\* tick.
ScreenKeyCodes == {"Up", "Down", "k", "j", "c", "Enter", "Esc", "Tab"}
ScreenEvents ==
    {[kind |-> "Key", code |-> c, ctrl |-> m] : c \in ScreenKeyCodes, m \in BOOLEAN}
        \cup {[kind |-> "Resize"], [kind |-> "Tick"]}

IsCtrlC(event) == event.kind = "Key" /\ event.code = "c" /\ event.ctrl

\* SelectScreen::handle_event: the list after the event and the result, if
\* the screen ends.
MutHandleEventWithoutCtrlC(list, event) ==
    IF event.kind # "Key" THEN [list |-> list, result |-> {}]
    ELSE LET l == SelectList_handle_key(list, event.code)
         IN  CASE l.action = "Confirm" ->
                    [list |-> l,
                     result |-> {[res |-> "Done", index |-> i] : i \in l.selected}]
               [] l.action = "Cancel" ->
                    [list |-> l, result |-> Some([res |-> "Cancelled"])]
               [] OTHER -> [list |-> l, result |-> {}]

handle_event(list, event) ==
    IF event.kind # "Key" THEN [list |-> list, result |-> {}]
    ELSE IF IsCtrlC(event) THEN [list |-> list, result |-> Some([res |-> "Cancelled"])]
    ELSE LET l == SelectList_handle_key(list, event.code)
         IN  CASE l.action = "Confirm" ->
                    [list |-> l,
                     result |-> {[res |-> "Done", index |-> i] : i \in l.selected}]
               [] l.action = "Cancel" ->
                    [list |-> l, result |-> Some([res |-> "Cancelled"])]
               [] OTHER -> [list |-> l, result |-> {}]

\* select_from_list is called with n options.
InitScreen ==
    /\ InitFiles
    /\ InitTerminal
    /\ InitCall
    /\ input = NoWidget
    /\ select = NoWidget
    /\ screen \in {[kind |-> "options", n |-> n] : n \in 0..MaxItems}

NoEvent == [kind |-> "none"]

\* select_from_list: fails on an empty option list, otherwise builds the
\* screen and runs it.
SelectFromList ==
    /\ screen.kind = "options"
    /\ IF screen.n = 0
       THEN /\ screen' = [kind |-> "screen", n |-> 0, started |-> FALSE,
                          result |-> "Err", index |-> {}, event |-> NoEvent]
            /\ UNCHANGED select
       ELSE /\ screen' = [kind |-> "screen", n |-> screen.n, started |-> TRUE,
                          result |-> "none", index |-> {}, event |-> NoEvent]
            /\ select' = SelectList_new(screen.n)
    /\ UNCHANGED <<attachVars, storeVars, terminal, call, input>>

\* The event loop hands an event to the screen; the screen ends with the
\* first result.
ScreenEvent ==
    /\ screen.kind = "screen"
    /\ screen.started
    /\ screen.result = "none"
    /\ \E event \in ScreenEvents :
          LET h == handle_event(select, event)
          IN  /\ select' = [h.list EXCEPT
                                !.key = IF event.kind = "Key" THEN event.code
                                        ELSE "none",
                                !.before = select.selected]
              /\ screen' = [screen EXCEPT
                                !.event = event,
                                !.result = IF h.result = {} THEN "none"
                                           ELSE Get(h.result).res,
                                !.index = {r.index : r \in
                                              {x \in h.result : x.res = "Done"}}]
    /\ UNCHANGED <<attachVars, storeVars, terminal, call, input>>

NextScreen == SelectFromList \/ ScreenEvent

SpecScreen == InitScreen /\ [][NextScreen]_vars

\* C30: the selection screen ends only by a decision of the user: Done(i)
\* only for Enter, with i the highlighted index (0 <= i < number of
\* options), Cancelled for Esc and for Ctrl+C, and nothing (the screen
\* continues, the options unchanged) for every other event; select_from_list
\* on an empty option list fails without starting the screen.
C30_ScreenEndsByDecision ==
    screen.kind = "screen" =>
        /\ screen.n = 0 =>
              ~screen.started /\ screen.result = "Err" /\ select = NoWidget
        /\ screen.n # 0 =>
              /\ screen.started
              /\ screen.result \in {"none", "Done", "Cancelled"}
              /\ select.items = ListItems(screen.n)
              /\ screen.event = NoEvent => screen.result = "none"
              /\ screen.event # NoEvent =>
                    LET e == screen.event
                        enter == e.kind = "Key" /\ e.code = "Enter"
                        cancel == IsCtrlC(e) \/ (e.kind = "Key" /\ e.code = "Esc")
                    IN  /\ screen.result = "Done" <=> enter
                        /\ screen.result = "Cancelled" <=> cancel
                        /\ screen.result = "none" <=> (~enter /\ ~cancel)
                        /\ screen.result = "Done" =>
                              /\ screen.index = select.selected
                              /\ screen.index # {}
                              /\ 0 <= Get(screen.index)
                              /\ Get(screen.index) < screen.n
                        /\ screen.result # "Done" => screen.index = {}

\* Enter on the third of three options, after two moves down.
C30_Witness ==
    /\ screen.kind = "screen"
    /\ screen.n = 3
    /\ screen.result = "Done"
    /\ screen.index = Some(2)

====
